---------------------------- MODULE Spec2Model ----------------------------
(***************************************************************************)
(* A state-machine model of the lle emulator core: the cooperative         *)
(* scheduler (device.rs), the interrupt controller (peripherals/aic.rs),   *)
(* exception vectoring (exception.rs), the SD card protocol model          *)
(* (extdev/sd.rs) and the SD host controller (peripherals/sic.rs).         *)
(*                                                                         *)
(* Encodings.  A 32-bit or 8-bit bitmap is the set of its set bit          *)
(* positions.  A 32-bit word of the priority table is the tuple of its     *)
(* four bytes, least significant first.  An address is a pair of a         *)
(* region and an offset.                                                   *)
(***************************************************************************)
EXTENDS Integers, Sequences, FiniteSets, TLC

VARIABLES
    uc,               \* UnicornContext: ExtraState plus the CPU registers
    device,           \* Device: the two SD cards
    phase,            \* where the run loop of main() stands
    overflow_checks,  \* build profile: are arithmetic overflow checks compiled in
    last,             \* history: the last operation, its inputs and its result
    ops               \* history: the number of operations performed so far

vars == <<uc, device, phase, overflow_checks, last, ops>>

\* ------------------------------------------------------------------ bounds

\* The number of operations in a run of the interrupt controller.
MaxAicOps == 4

\* Interrupt sources posted by peripherals: WDT, EXTINT0, EXTINT1, TMR0.
AicSources == {1, 2, 3, 14}

\* Bitmaps the guest writes to the 32-bit AIC registers.
AicMasks == {{}, {0, 1}, {2, 3}, {14}}

\* Words the guest writes to the priority table.
LevelWords == {<<71, 71, 71, 71>>, <<16, 49, 34, 17>>}

\* Words of the priority table the guest writes.
LevelSlots == {0, 1}

\* Command arguments, as <<high half, low half>>.
ArgZero == <<0, 0>>
ArgRca1 == <<1, 0>>            \* 0x00010000: relative address 1
ArgLen512 == <<0, 512>>        \* 0x00000200
ArgLen513 == <<0, 513>>        \* 0x00000201
ArgVoltage == <<255, 32768>>   \* 0x00ff8000
ArgHighOnly == <<256, 0>>      \* 0x01000000: nonzero, low 24 bits zero
ArgCommit == <<32768, 1>>      \* 0x80000001: function switch, commit bit set

\* The commands sent to a card, each with the arguments its handler reads:
\* the handled codes and one that is not handled (1).
SdRequests ==
    {<<c, ArgZero>> : c \in {0, 1, 2, 3, 12, 51, 55}}
    \cup {<<c, a>> : c \in {7, 9, 10}, a \in {ArgZero, ArgRca1}}
    \cup {<<16, a>> : a \in {ArgZero, ArgLen512, ArgLen513, ArgVoltage}}
    \cup {<<18, a>> : a \in {ArgZero, ArgLen512}}
    \cup {<<6, a>> : a \in {ArgZero, ArgCommit}}
    \cup {<<8, a>> : a \in {ArgZero, ArgLen512}}
    \cup {<<41, a>> : a \in {ArgZero, ArgVoltage, ArgHighOnly}}

\* Buffer sizes the host controller hands to recv_data: too small for any
\* answer, a function-status block, one sector, two sectors.
BufferLens == {4, 64, 512, 1024}

\* How far a staged sector read may advance past its starting sector.
MaxSectorAdvance == 2

\* Function-switch arguments: 0x80ffffff (commit, keep every group),
\* 0x80000002 (commit, function 2 of group 1, which the card lacks),
\* 0x80100000 (commit, function 1 of group 6, which only group 1 has).
ArgCommitKeep == <<33023, 65535>>
ArgCommitBad == <<32768, 2>>
ArgCommitGroup6 == <<32784, 0>>

\* The commands sent to a selected card in a run of its data phases.
SdDataRequests ==
    {<<c, ArgZero>> : c \in {0, 12, 51, 55}}
    \cup {<<7, a>> : a \in {ArgZero, ArgRca1}}
    \cup {<<6, a>> : a \in {ArgZero, ArgCommit, ArgCommitKeep, ArgCommitBad,
                            ArgCommitGroup6}}
    \cup {<<18, a>> : a \in {ArgLen512}}

\* The commands of card bring-up and selection, in order: CMD0, CMD55,
\* ACMD41(0), CMD55, ACMD41(0x00ff8000), CMD2, CMD3, CMD7(relative address 1).
BringUp ==
    <<<<0, ArgZero>>, <<55, ArgZero>>, <<41, ArgZero>>, <<55, ArgZero>>,
      <<41, ArgVoltage>>, <<2, ArgZero>>, <<3, ArgZero>>, <<7, ArgRca1>>>>

\* A priority-table word whose four sources are high-level triggered, priority 1.
HighLevelWord == <<81, 81, 81, 81>>

\* The number of instruction hooks in a run of the whole machine.
MaxSteps == 6

\* What a guest instruction does besides computing: a supervisor call, another
\* software interrupt, or one 4-byte register write.
GuestOps ==
    {[kind |-> "plain"], [kind |-> "intr", intno |-> 2], [kind |-> "intr", intno |-> 3],
     [kind |-> "sys", reg |-> "CLKDIV0",
      value |-> [sys_prediv |-> 7, sys_source |-> "X32K", sys_div |-> 15]],
     [kind |-> "sys", reg |-> "AHBCLK", value |-> [cpu |-> TRUE, sic |-> TRUE]],
     [kind |-> "sys", reg |-> "AHBCLK", value |-> [cpu |-> FALSE, sic |-> TRUE]],
     [kind |-> "tmr", reg |-> "TCSR", ch |-> 1,
      value |-> [prescale |-> 2, reset |-> FALSE, mode |-> "Periodic", enable |-> TRUE]],
     [kind |-> "aic", reg |-> <<"SCR", 1>>, value |-> HighLevelWord],
     [kind |-> "aic", reg |-> <<"SCR", 2>>, value |-> HighLevelWord],
     [kind |-> "aic", reg |-> <<"SSCR", 0>>, value |-> {1}],
     [kind |-> "rtc", reg |-> "AER", value |-> "MAGIC_WRITE"],
     [kind |-> "rtc", reg |-> "PWRON", value |-> [power_on |-> FALSE, power_off |-> TRUE]],
     [kind |-> "sic", reg |-> "SDIER",
      value |-> [block_xfer_done |-> 0, timeout_cmd |-> 1, timeout_dat |-> 0]],
     [kind |-> "sic", reg |-> "SDCR",
      value |-> [co_en |-> 1, ri_en |-> 1, di_en |-> 0, do_en |-> 0, r2_en |-> 0,
                 clk74_oe |-> 0, clk8_oe |-> 0, cmd_code |-> 9, swrst |-> 0,
                 blkcnt |-> 0, sdport |-> 0]],
     [kind |-> "blt", reg |-> "SET", value |-> [trigger |-> TRUE, fill |-> TRUE]],
     [kind |-> "blt", reg |-> "BLTINTCR",
      value |-> [clear_status |-> FALSE, clear_error |-> FALSE, enabled |-> TRUE]],
     [kind |-> "vpost", reg |-> "LCDC_CTL", value |-> [run |-> TRUE]]}

\* What the host does to a dispatch pass: presentation fails, a register access
\* fails while vectoring, guest memory cannot be accessed; at most one per pass.
PassInputs ==
    {[render_fails |-> r, vector |-> v, mem_fails |-> m] :
        r \in BOOLEAN, v \in {"none", "pc_read"}, m \in BOOLEAN}
    \ {i \in [render_fails : BOOLEAN, vector : {"none", "pc_read"}, mem_fails : BOOLEAN] :
          (IF i.render_fails THEN 1 ELSE 0) + (IF i.vector # "none" THEN 1 ELSE 0)
          + (IF i.mem_fails THEN 1 ELSE 0) > 1}

\* The number of operations in a run of the SD host controller alone.
MaxSicOps == 5

\* The SDCR values the guest writes: a command alone (port 0, 1, 2), a command
\* with a data-in phase, a data-in phase alone (of one block, of two), a
\* software reset (alone, with a command and a data-in phase), a clock delay.
SdcrCommand(cmd, port, di) ==
    [co_en |-> 1, ri_en |-> 1, di_en |-> di, do_en |-> 0, r2_en |-> 0, clk74_oe |-> 0,
     clk8_oe |-> 0, cmd_code |-> cmd, swrst |-> 0, blkcnt |-> 0, sdport |-> port]

SdcrWrites ==
    {SdcrCommand(c, p, 0) : c \in {0, 9, 55}, p \in {0, 1, 2}}
    \cup {SdcrCommand(51, 0, 1), SdcrCommand(9, 0, 1),
          [SdcrCommand(0, 0, 1) EXCEPT !.co_en = 0],
          [SdcrCommand(0, 0, 1) EXCEPT !.co_en = 0, !.blkcnt = 2],
          [SdcrCommand(0, 0, 0) EXCEPT !.co_en = 0, !.swrst = 1],
          [SdcrCommand(0, 0, 1) EXCEPT !.swrst = 1],
          [SdcrCommand(0, 0, 0) EXCEPT !.clk74_oe = 1]}

\* The other controller registers the guest writes: the interrupt enables
\* (all three, the data timeout alone), the DMA target-abort enable, the block
\* length, the DMA and FMI resets.
SicSetupWrites ==
    {<<"SDIER", [block_xfer_done |-> 1, timeout_cmd |-> 1, timeout_dat |-> 1]>>,
     <<"SDIER", [block_xfer_done |-> 0, timeout_cmd |-> 0, timeout_dat |-> 1]>>,
     <<"DMACIER", [target_abort |-> 1]>>,
     <<"SDBLEN", 7>>, <<"SDBLEN", 511>>,
     <<"DMACCSR", [reset |-> 1]>>, <<"FMICR", [reset |-> 1]>>}

\* Register accesses that fail while the controller vectors an interrupt.
TickFailures == {"none", "pc_read", "lr_write"}

\* ------------------------------------------------------- device.rs: stop reasons

QuitDetails == {"UserSpecified", "CPUException", "CPUHalt", "HLECallbackFailure"}

Run == [tag |-> "Run", detail |-> "None"]
Tick == [tag |-> "Tick", detail |-> "None"]
FrameStep == [tag |-> "FrameStep", detail |-> "None"]
SVC == [tag |-> "SVC", detail |-> "None"]
Quit(d) == [tag |-> "Quit", detail |-> d]

StopReasons == {Run, Tick, FrameStep, SVC} \cup {Quit(d) : d \in QuitDetails}

\* The decision of request_stop: a Run request is ignored; the request is
\* recorded when nothing is recorded yet, or when it is a Quit and the recorded
\* reason is not.
stop_reason_after_last_wins(current, reason) ==
    IF reason.tag = "Run" THEN current ELSE reason

stop_reason_after(current, reason) ==
    IF reason.tag = "Run" THEN current
    ELSE IF current.tag = "Run" \/ (current.tag # "Quit" /\ reason.tag = "Quit")
         THEN reason
         ELSE current

\* request_stop.  `requests` is history: the calls made by the running handler,
\* each with the reason recorded before and after it.
request_stop(u, reason) ==
    [u EXCEPT !.stop_reason = stop_reason_after(@, reason),
              !.requests = Append(@, [before |-> u.stop_reason, reason |-> reason,
                                      after |-> stop_reason_after(u.stop_reason, reason)])]

\* ------------------------------------------------------- exception.rs

\* ExceptionType: the discriminant is the offset of the vector.
ExceptionType ==
    [Reset |-> 0, UndefinedInstruction |-> 4, SupervisorCall |-> 8,
     PrefetchAbort |-> 12, DataAbort |-> 16, IRQ |-> 24, FIQ |-> 28]

ExceptionKinds == DOMAIN ExceptionType

\* to_vector_address: 0xff000000 + discriminant.
to_vector_address(k) == [region |-> "vector", off |-> ExceptionType[k]]

\* The link register: the resume PC plus a per-kind offset.
computed_lr_next_instruction(k, pc) == [pc EXCEPT !.off = @ + 4]

computed_lr(k, pc) ==
    CASE k = "Reset" -> pc
      [] k = "UndefinedInstruction" -> [pc EXCEPT !.off = @ + 4]
      [] k = "SupervisorCall" -> pc
      [] k = "PrefetchAbort" -> [pc EXCEPT !.off = @ + 4]
      [] k = "DataAbort" -> [pc EXCEPT !.off = @ + 8]
      [] k = "IRQ" -> [pc EXCEPT !.off = @ + 4]
      [] k = "FIQ" -> [pc EXCEPT !.off = @ + 4]

\* The bits or-ed into CPSR, as sets of bit positions.
computed_cpsr_set(k) ==
    CASE k = "Reset" -> {0, 1, 4, 6, 7}                 \* 0b11010011
      [] k = "UndefinedInstruction" -> {0, 1, 3, 4, 7}  \* 0b10011011
      [] k = "SupervisorCall" -> {0, 1, 4, 7}           \* 0b10010011
      [] k \in {"PrefetchAbort", "DataAbort"} -> {0, 1, 2, 4, 7}  \* 0b10010111
      [] k = "IRQ" -> {1, 4, 7}                         \* 0b10010010
      [] k = "FIQ" -> {0, 4, 6, 7}                      \* 0b11010001

\* The register accesses of call_exception_handler, in order; `fail` names the
\* access that returns an error ("none": all succeed).
VectorSteps == <<"pc_read", "cpsr_read", "cpsr_write", "spsr_write", "lr_write", "set_pc">>
VectorFailures == {"none"} \cup {VectorSteps[i] : i \in 1..Len(VectorSteps)}

StepIndex(f) == IF f = "none" THEN Len(VectorSteps) + 1
                ELSE CHOOSE i \in 1..Len(VectorSteps) : VectorSteps[i] = f

\* call_exception_handler: each access before the failing one has taken effect.
call_exception_handler(u, k, fail) ==
    LET n == StepIndex(fail)
        current_pc == u.cpu.pc
        cpsr == u.cpu.cpsr
        new_cpsr == (cpsr \ (0..5)) \cup computed_cpsr_set(k)
        c1 == IF n > 3 THEN [u.cpu EXCEPT !.cpsr = new_cpsr] ELSE u.cpu
        c2 == IF n > 4 THEN [c1 EXCEPT !.spsr = cpsr] ELSE c1
        c3 == IF n > 5 THEN [c2 EXCEPT !.lr = computed_lr(k, current_pc)] ELSE c2
        c4 == IF n > 6 THEN [c3 EXCEPT !.pc = to_vector_address(k)] ELSE c3
    IN  [uc |-> [u EXCEPT !.cpu = c4,
                          !.log = IF n > 6 THEN Append(@, <<"vector", k>>) ELSE @],
         ok |-> n > 6]

\* ------------------------------------------------------- peripherals/aic.rs

\* BCS8: the index of the lowest set bit of a byte (0 for 0), as tabulated.
BCS8 ==
    <<0, 0, 1, 0, 2, 0, 1, 0, 3, 0, 1, 0, 2, 0, 1, 0,
      4, 0, 1, 0, 2, 0, 1, 0, 3, 0, 1, 0, 2, 0, 1, 0,
      5, 0, 1, 0, 2, 0, 1, 0, 3, 0, 1, 0, 2, 0, 1, 0,
      4, 0, 1, 0, 2, 0, 1, 0, 3, 0, 1, 0, 2, 0, 1, 0,
      6, 0, 1, 0, 2, 0, 1, 0, 3, 0, 1, 0, 2, 0, 1, 0,
      4, 0, 1, 0, 2, 0, 1, 0, 3, 0, 1, 0, 2, 0, 1, 0,
      5, 0, 1, 0, 2, 0, 1, 0, 3, 0, 1, 0, 2, 0, 1, 0,
      4, 0, 1, 0, 2, 0, 1, 0, 3, 0, 1, 0, 2, 0, 1, 0,
      7, 0, 1, 0, 2, 0, 1, 0, 3, 0, 1, 0, 2, 0, 1, 0,
      4, 0, 1, 0, 2, 0, 1, 0, 3, 0, 1, 0, 2, 0, 1, 0,
      5, 0, 1, 0, 2, 0, 1, 0, 3, 0, 1, 0, 2, 0, 1, 0,
      4, 0, 1, 0, 2, 0, 1, 0, 3, 0, 1, 0, 2, 0, 1, 0,
      6, 0, 1, 0, 2, 0, 1, 0, 3, 0, 1, 0, 2, 0, 1, 0,
      4, 0, 1, 0, 2, 0, 1, 0, 3, 0, 1, 0, 2, 0, 1, 0,
      5, 0, 1, 0, 2, 0, 1, 0, 3, 0, 1, 0, 2, 0, 1, 0,
      4, 0, 1, 0, 2, 0, 1, 0, 3, 0, 1, 0, 2, 0, 1, 0>>

\* The value of a byte-wide bitmap given as a set of bit positions.
RECURSIVE ByteValue(_)
ByteValue(bits) ==
    IF bits = {} THEN 0
    ELSE LET b == CHOOSE x \in bits : TRUE
         IN  2 ^ b + ByteValue(bits \ {b})

SetMin(S) == CHOOSE x \in S : \A y \in S : x <= y

\* AICConfig::default
AICConfig_default ==
    [levels |-> [w \in 0..7 |-> <<71, 71, 71, 71>>],   \* 0x47474747
     status_map |-> {},
     step |-> FALSE,
     status |-> [p \in 0..7 |-> {}],
     enabled |-> {},
     current_interrupt |-> <<0, 0>>]

\* The marker returned by a lookup that panics.
LevelPanic == 0 - 1

\* (word >> shift) & 0xff on a u32, for a shift that is a multiple of 8.  A shift
\* of 32 or more overflows: a panic with overflow checks, else the shift amount
\* wraps modulo 32.
shr_byte(word, shift) ==
    IF shift >= 32
    THEN IF overflow_checks THEN LevelPanic ELSE word[((shift % 32) \div 8) + 1]
    ELSE word[(shift \div 8) + 1]

\* InterruptNumber::as_offset_shift
as_offset_shift(a) == <<a \div 8, (a % 8) * 8>>

\* AICConfig::get_level
get_level(a, intno) ==
    LET os == as_offset_shift(intno)
    IN  shr_byte(a.levels[os[1]], os[2])

\* level & 0x30, as the 2-bit trigger mode; level & 0x7.
trigger_mode(level) == (level \div 16) % 4
priority_of(level) == level % 8

\* The test that ends check_interrupt early: the source's bit of `enabled` is set.
is_masked_when_clear(a, intno) == intno \notin a.enabled

is_masked(a, intno) == intno \in a.enabled

\* AICConfig::check_interrupt
check_interrupt(a, intno, incoming, latched) ==
    IF is_masked(a, intno)
    THEN [aic |-> a, ret |-> FALSE, panic |-> FALSE]
    ELSE LET level == get_level(a, intno)
         IN  IF level = LevelPanic
             THEN [aic |-> a, ret |-> FALSE, panic |-> TRUE]
             ELSE LET m == trigger_mode(level)
                      trigger == CASE m = 0 -> ~incoming
                                   [] m = 1 -> incoming
                                   [] m = 2 -> incoming # latched /\ ~incoming
                                   [] m = 3 -> incoming # latched /\ incoming
                      prio == priority_of(level)
                  IN  IF trigger
                      THEN [aic |-> [a EXCEPT !.status[prio] = @ \cup {intno},
                                              !.status_map = @ \cup {prio}],
                            ret |-> TRUE, panic |-> FALSE]
                      ELSE [aic |-> a, ret |-> FALSE, panic |-> FALSE]

\* AICConfig::apply_enable_mask, apply_disable_mask
apply_enable_mask(a, mask) == [a EXCEPT !.enabled = @ \cup mask]
apply_disable_mask(a, mask) == [a EXCEPT !.enabled = @ \ mask]

\* AICConfig::get_joint_status
get_joint_status(a) == UNION {a.status[p] : p \in 0..7}

\* The level byte set_joint_status reads for bit i.
joint_level(a, i) == shr_byte(a.levels[i \div 8], (i % 8) * 8)

\* AICConfig::set_joint_status: the table is rebuilt in locals and stored at the
\* end, so a panic in the loop leaves the state as it was.
set_joint_status(a, status) ==
    IF \E i \in status : joint_level(a, i) = LevelPanic
    THEN [aic |-> a, panic |-> TRUE]
    ELSE [aic |-> [a EXCEPT
                     !.status = [p \in 0..7 |->
                                   {i \in status : priority_of(joint_level(a, i)) = p}],
                     !.status_map = {priority_of(joint_level(a, i)) : i \in status}],
          panic |-> FALSE]

\* AICConfig::apply_status_set_mask, apply_status_clear_mask
apply_status_set_mask(a, mask) == set_joint_status(a, get_joint_status(a) \cup mask)
apply_status_clear_mask(a, mask) == set_joint_status(a, get_joint_status(a) \ mask)

\* AICConfig::next_interrupt: the scan for the source starts at bit 1.
next_interrupt(a) ==
    IF a.status_map = {} THEN <<0, 0>>
    ELSE LET next_pending_prio == BCS8[ByteValue(a.status_map) + 1]
             next_pending == a.status[next_pending_prio]
             found == {i \in 1..31 : i \in next_pending}
         IN  IF next_pending = {} THEN <<next_pending_prio, 0>>
             ELSE <<next_pending_prio, IF found = {} THEN 0 ELSE SetMin(found)>>

\* AICConfig::pop_next_interrupt
pop_next_interrupt(a) ==
    LET pn == next_interrupt(a)
    IN  [aic |-> [a EXCEPT !.current_interrupt = pn,
                           !.status[pn[1]] = @ \ {pn[2]}],
         ret |-> pn]

\* post_interrupt: a latch sets step and requests a Tick stop.  `owed` is
\* history: a latch has happened and the controller's tick has not run since.
post_interrupt(u, intno, incoming, latched) ==
    LET r == check_interrupt(u.aic, intno, incoming, latched)
    IN  IF r.panic THEN [u EXCEPT !.panicked = TRUE]
        ELSE IF r.ret
        THEN request_stop([u EXCEPT !.aic = [r.aic EXCEPT !.step = TRUE],
                                    !.owed = TRUE], Tick)
        ELSE u


\* The AIC registers: the eight table words and the control registers.
AicRegs == {<<"SCR", w>> : w \in 0..7}
           \cup {<<r, 0>> : r \in {"IMR", "ISR", "MECR", "MDCR", "SSCR", "SCCR", "EOSCR",
                                   "IPER", "ISNR"}}

\* The result of an AIC operation stored back, or the panic recorded.
with_aic(u, r) == IF r.panic THEN [u EXCEPT !.panicked = TRUE] ELSE [u EXCEPT !.aic = r.aic]

step_and_stop(u) == request_stop([u EXCEPT !.aic.step = TRUE], Tick)

\* aic::write (a 4-byte access)
aic_write(u, reg, v32) ==
    CASE reg[1] = "SCR" -> [u EXCEPT !.aic.levels[reg[2]] = v32]
      [] reg[1] = "IMR" -> [u EXCEPT !.aic.enabled = v32]
      [] reg[1] = "ISR" ->
           LET u1 == with_aic(u, set_joint_status(u.aic, v32))
           IN  IF u1.panicked THEN u1
               ELSE IF v32 # {} THEN step_and_stop(u1) ELSE u1
      [] reg[1] = "MECR" -> [u EXCEPT !.aic = apply_enable_mask(u.aic, v32)]
      [] reg[1] = "MDCR" -> [u EXCEPT !.aic = apply_disable_mask(u.aic, v32)]
      [] reg[1] = "SSCR" ->
           LET u1 == with_aic(u, apply_status_set_mask(u.aic, v32))
           IN  IF u1.panicked THEN u1
               ELSE IF v32 # {} THEN step_and_stop(u1) ELSE u1
      [] reg[1] = "SCCR" -> with_aic(u, apply_status_clear_mask(u.aic, v32))
      [] reg[1] = "EOSCR" ->
           IF get_joint_status(u.aic) # {} THEN step_and_stop(u) ELSE u
      [] OTHER -> u

\* aic::read (a 4-byte access): reading ISR clears step.  IPER and ISNR give the
\* source number of current_interrupt (IPER shifted left by 2).
aic_read(u, reg) ==
    CASE reg[1] = "SCR" -> [uc |-> u, ret |-> u.aic.levels[reg[2]]]
      [] reg[1] = "IPER" -> [uc |-> u, ret |-> u.aic.current_interrupt[2] * 4]
      [] reg[1] = "ISNR" -> [uc |-> u, ret |-> u.aic.current_interrupt[2]]
      [] reg[1] = "IMR" -> [uc |-> u, ret |-> u.aic.enabled]
      [] reg[1] = "ISR" -> [uc |-> [u EXCEPT !.aic.step = FALSE],
                            ret |-> get_joint_status(u.aic)]
      [] OTHER -> [uc |-> u, ret |-> 0]

\* The exception aic::tick delivers for a priority: FIQ for 0, IRQ otherwise.
exception_for_always_irq(prio) == "IRQ"

exception_for(prio) == IF prio = 0 THEN "FIQ" ELSE "IRQ"

\* aic::tick: when step is set and the summary is not empty, pop the next
\* interrupt and vector FIQ for priority 0, IRQ otherwise; a vectoring error is
\* logged and dropped.
aic_tick(u, fail) ==
    LET u0 == [u EXCEPT !.owed = FALSE, !.log = Append(@, <<"tick", "aic">>)]
    IN  IF u0.aic.step /\ u0.aic.status_map # {}
        THEN LET r == pop_next_interrupt(u0.aic)
                 u1 == [u0 EXCEPT !.aic = r.aic,
                                  !.log = Append(@, <<"pop", "aic">>)]
             IN  call_exception_handler(u1, exception_for(r.ret[1]), fail).uc
        ELSE u0

\* ------------------------------------------------------- extdev/sd.rs

\* CurrentState, in declaration order: the 4-bit encoding is the index.
CurrentState ==
    <<"Idle", "Ready", "Identification", "StandBy", "Transfer", "SendingData",
      "ReceivingData", "Programming", "Disconnect", "Inactive", "Reserved10",
      "Reserved11", "Reserved12", "Reserved13", "Reserved14", "Reserved15">>

\* CardStatus: bit positions of the named one-bit fields.
BIT_AKE_SEQ_ERROR == 3
BIT_APP_COMMAND == 5
BIT_ERASED_RESET == 13
BIT_ILLEGAL_COMMAND == 22
BIT_LOCK_UNLOCK_FAILED == 24
BIT_BLOCK_LEN_ERROR == 29

\* The bits of an n-bit field holding value v, placed at bit `start`.
RECURSIVE FieldBits(_, _, _)
FieldBits(start, n, v) ==
    IF n = 0 THEN {}
    ELSE (IF v % 2 = 1 THEN {start} ELSE {}) \cup FieldBits(start + 1, n - 1, v \div 2)

\* The value of the n-bit field at bit `start`.
RECURSIVE FieldValue(_, _, _)
FieldValue(bits, start, n) ==
    IF n = 0 THEN 0
    ELSE (IF start \in bits THEN 1 ELSE 0) + 2 * FieldValue(bits, start + 1, n - 1)

\* The bitfield accessors set(start, len, value) and get(start, len).
bf_set(bits, start, n, v) == (bits \ (start..(start + n - 1))) \cup FieldBits(start, n, v)
bf_set_bit(bits, b, on) == IF on THEN bits \cup {b} ELSE bits \ {b}

StateIndex(name) == CHOOSE i \in 1..16 : CurrentState[i] = name

\* CardStatus::get_current_state, set_current_state: bits 9..=12.
get_current_state(cs) == CurrentState[FieldValue(cs, 9, 4) + 1]

set_current_state_ors_bits(cs, name) == cs \cup FieldBits(9, 4, StateIndex(name) - 1)

set_current_state(cs, name) == bf_set(cs, 9, 4, StateIndex(name) - 1)

\* CardStatus::after_read: returns the status as it was and clears the
\* self-clearing bits.
\* A status read that also forgets a rejected command.
after_read_forgets_illegal(cs) ==
    [status |-> cs \ ((26..31) \cup (19..22) \cup {24, 16, 15, 13, 5, 3}), before_clear |-> cs]

after_read(cs) ==
    LET c1 == bf_set(cs, 26, 6, 0)
        c2 == bf_set_bit(c1, BIT_LOCK_UNLOCK_FAILED, FALSE)
        c3 == bf_set(c2, 19, 3, 0)
        c4 == bf_set(c3, 15, 2, 0)
        c5 == bf_set_bit(c4, BIT_ERASED_RESET, FALSE)
        c6 == bf_set_bit(c5, BIT_APP_COMMAND, FALSE)
        c7 == bf_set_bit(c6, BIT_AKE_SEQ_ERROR, FALSE)
    IN  [status |-> c7, before_clear |-> cs]

\* A 32-bit argument is the pair of its high and low 16-bit halves.
\* A zero test that never finds zero.
ArgIsZero_never(arg) == FALSE
ArgIsZero(arg) == arg[1] = 0 /\ arg[2] = 0

RecvNone == [tag |-> "None", arg |-> <<0, 0>>]
FTLRead(sector_index) == [tag |-> "FTLRead", arg |-> sector_index]
SCRRead == [tag |-> "SCRRead", arg |-> <<0, 0>>]
FunctionStatus(arg) == [tag |-> "FunctionStatus", arg |-> arg]

\* SD::default
SD_default ==
    [csd |-> "None",
     card_status |-> {},
     rca |-> 0,
     selected_functions |-> <<0, 0, 0, 0, 0, 0>>,
     io_size |-> 0,
     image_file |-> FALSE,
     send_action |-> "None",
     recv_action |-> RecvNone]

\* SD::is_mounted
is_mounted(sd) == sd.image_file

\* A mount that replaces the image of a mounted card.
sd_mount_again(sd, hc) ==
    [sd |-> [sd EXCEPT !.image_file = TRUE,
                       !.csd = IF hc THEN "HC" ELSE "SC",
                       !.send_action = "None",
                       !.recv_action = RecvNone],
     ok |-> TRUE]

\* SD::mount: fails when mounted; else opens the image, derives the CSD variant
\* from its size and clears the staged actions.
sd_mount(sd, hc) ==
    IF sd.image_file THEN [sd |-> sd, ok |-> FALSE]
    ELSE [sd |-> [sd EXCEPT !.image_file = TRUE,
                            !.csd = IF hc THEN "HC" ELSE "SC",
                            !.send_action = "None",
                            !.recv_action = RecvNone],
          ok |-> TRUE]

\* SD::unmount
sd_unmount(sd) == [sd EXCEPT !.image_file = FALSE, !.csd = "None"]

RNone == [type |-> "RNone"]
R1(cmd, status) == [type |-> "R1", cmd |-> cmd, status |-> status, busy |-> FALSE]
R2(which) == [type |-> "R2", cid_csd |-> which]
R3(ocr, is_sdhc, power_up) ==
    [type |-> "R3", ocr |-> ocr, is_sdhc |-> is_sdhc, power_up |-> power_up]
R6(rca, status) == [type |-> "R6", rca |-> rca, status |-> status]
R7(voltage_accepted, check) ==
    [type |-> "R7", voltage_accepted |-> voltage_accepted, check |-> check]

\* The result of a request: the card, the response, and whether the request ended
\* in term_illegal.
Reply(sd, resp) == [sd |-> sd, resp |-> resp, illegal |-> FALSE]

\* A rejection that also drops the card back to Idle.
term_illegal_resets(sd) ==
    [sd |-> [sd EXCEPT !.card_status =
                 set_current_state(bf_set_bit(@, BIT_ILLEGAL_COMMAND, TRUE), "Idle")],
     resp |-> RNone, illegal |-> TRUE]

\* A rejection that leaves the status word alone.
term_illegal_silent(sd) == [sd |-> sd, resp |-> RNone, illegal |-> TRUE]

\* SD::term_illegal: sets ILLEGAL_COMMAND and answers with no response.
term_illegal(sd) ==
    [sd |-> [sd EXCEPT !.card_status = bf_set_bit(@, BIT_ILLEGAL_COMMAND, TRUE)],
     resp |-> RNone, illegal |-> TRUE]

\* The status after after_read, stored back.
read_status(sd) == [sd EXCEPT !.card_status = after_read(@).status]
to_state(sd, name) == [sd EXCEPT !.card_status = set_current_state(@, name)]
state_of(sd) == get_current_state(sd.card_status)

\* make_request with the application-command latch set.
acmd_request(sd, cmd, arg) ==
    CASE cmd = 6 ->
           IF state_of(sd) = "Transfer"
           THEN Reply(read_status(sd), R1(cmd, sd.card_status))
           ELSE term_illegal(sd)
      [] cmd = 41 ->
           IF state_of(sd) = "Idle"
           THEN LET is_sdhc == sd.csd = "HC"
                IN  IF arg[1] % 256 = 0 /\ arg[2] = 0      \* arg & 0x00ffffff == 0
                    THEN Reply(read_status(sd), R3(<<255, 65280>>, is_sdhc, FALSE))
                    ELSE Reply(read_status(to_state(sd, "Ready")),
                               R3(<<arg[1] % 256, arg[2]>>, is_sdhc, TRUE))
           ELSE term_illegal(sd)
      [] cmd = 51 ->
           IF state_of(sd) = "Transfer"
           THEN LET s1 == to_state([sd EXCEPT !.recv_action = SCRRead], "SendingData")
                IN  Reply(read_status(s1), R1(cmd, s1.card_status))
           ELSE term_illegal(sd)
      [] OTHER -> term_illegal(sd)

\* make_request with the latch clear.
cmd_request(sd, cmd, arg) ==
    CASE cmd = 0 ->
           LET s1 == [sd EXCEPT !.card_status = bf_set(@, 0, 32, 0), !.rca = 0]
           IN  Reply(s1, R1(cmd, s1.card_status))
      [] cmd = 2 ->
           IF state_of(sd) = "Ready"
           THEN Reply(to_state(sd, "Identification"), R2("CID_ESD"))
           ELSE term_illegal(sd)
      [] cmd = 3 ->
           IF state_of(sd) \in {"Identification", "StandBy"}
           THEN LET s1 == to_state(sd, "StandBy")
                IN  Reply([read_status(s1) EXCEPT !.rca = 1], R6(1, s1.card_status))
           ELSE term_illegal(sd)
      [] cmd = 6 ->
           IF state_of(sd) = "Transfer"
           THEN LET s1 == to_state([sd EXCEPT !.recv_action = FunctionStatus(arg)],
                                   "SendingData")
                IN  Reply(read_status(s1), R1(cmd, s1.card_status))
           ELSE term_illegal(sd)
      [] cmd = 7 ->
           LET rca == arg[1]
           IN  CASE state_of(sd) = "StandBy" ->
                      LET s1 == IF rca = sd.rca THEN to_state(sd, "Transfer") ELSE sd
                      IN  Reply(read_status(s1), R1(cmd, s1.card_status))
                 [] state_of(sd) \in {"Transfer", "SendingData"} ->
                      IF rca # sd.rca
                      THEN LET s1 == to_state(sd, "StandBy")
                           IN  Reply(read_status(s1), R1(cmd, s1.card_status))
                      ELSE term_illegal(sd)
                 [] OTHER -> term_illegal(sd)
      [] cmd = 8 ->
           IF state_of(sd) = "Idle"
           THEN Reply(sd, R7((arg[2] \div 256) % 16, arg[2] % 256))
           ELSE term_illegal(sd)
      [] cmd = 9 ->
           IF state_of(sd) = "StandBy" /\ sd.rca = arg[1]
           THEN IF sd.csd = "None" THEN term_illegal(sd) ELSE Reply(sd, R2(sd.csd))
           ELSE term_illegal(sd)
      [] cmd = 10 ->
           IF sd.rca = arg[1]
           THEN IF state_of(sd) = "StandBy"
                THEN Reply(sd, R2("CID_ESD"))
                ELSE term_illegal(sd)
           ELSE Reply(sd, RNone)
      [] cmd = 12 ->
           IF state_of(sd) \in {"SendingData", "ReceivingData"}
           THEN LET s1 == to_state([sd EXCEPT !.recv_action = RecvNone,
                                              !.send_action = "None"], "Transfer")
                IN  Reply(read_status(s1), R1(cmd, s1.card_status))
           ELSE term_illegal(sd)
      [] cmd = 16 ->
           IF state_of(sd) = "Transfer"
           THEN LET s1 == read_status(sd)
                IN  IF ArgIsZero(arg) \/ arg[1] > 0 \/ arg[2] > 512
                    THEN LET s2 == [s1 EXCEPT !.card_status =
                                        bf_set_bit(@, BIT_BLOCK_LEN_ERROR, TRUE)]
                         IN  Reply(s2, R1(cmd, s2.card_status))
                    ELSE LET s2 == [s1 EXCEPT !.io_size = arg[2],
                                              !.card_status =
                                                  bf_set_bit(@, BIT_BLOCK_LEN_ERROR, FALSE)]
                         IN  Reply(s2, R1(cmd, s2.card_status))
           ELSE term_illegal(sd)
      [] cmd = 18 ->
           IF state_of(sd) = "Transfer"
           THEN LET s1 == to_state([sd EXCEPT !.recv_action = FTLRead(arg)], "SendingData")
                IN  Reply(read_status(s1), R1(cmd, s1.card_status))
           ELSE term_illegal(sd)
      [] cmd = 55 ->
           LET s1 == [read_status(sd) EXCEPT !.card_status =
                          bf_set_bit(after_read(sd.card_status).status,
                                     BIT_APP_COMMAND, TRUE)]
           IN  Reply(s1, R1(cmd, s1.card_status))
      [] OTHER -> term_illegal(sd)

\* SD::make_request: nothing happens on an unmounted card; a set latch selects
\* the application commands.
make_request(sd, cmd, arg) ==
    IF ~is_mounted(sd) THEN Reply(sd, RNone)
    ELSE IF BIT_APP_COMMAND \in sd.card_status
         THEN acmd_request(sd, cmd, arg)
         ELSE cmd_request(sd, cmd, arg)

\* CARD_FUNC, "from 6 to 1": the functions each entry supports, as a set of
\* function numbers (bit 15 is set in every entry).
CARD_FUNC == <<{0, 15}, {0, 15}, {0, 15}, {0, 15}, {0, 15}, {0, 1, 15}>>

\* (arg >> (4 * group)) & 0xf for group 0..5.
arg_nibble(arg, group) ==
    IF group < 4 THEN (arg[2] \div (16 ^ group)) % 16
    ELSE (arg[1] \div (16 ^ (group - 4))) % 16

\* A staged sector that stays where it is after a read.
sector_add_stays(idx, n) == idx

\* sector_index + n on a 32-bit sector index held as two halves (the sum is a
\* u64 in the code; the carry out of the low half goes to the high half).
sector_add(idx, n) == <<idx[1] + ((idx[2] + n) \div 65536), (idx[2] + n) % 65536>>

\* A function switch that holds every group to the table entry of group 1.
switch_group_same_table(sd, arg, group) ==
    LET new_func == (IF group < 4 THEN arg[2] \div (16 ^ group)
                     ELSE arg[1] \div (16 ^ (group - 4))) % 16
    IN  IF new_func = 15 THEN <<sd.selected_functions[group + 1], FALSE>>
        ELSE IF new_func \in {0, 1} THEN <<new_func, FALSE>>
        ELSE <<15, TRUE>>

\* The function-status answer for one group: <<nibble, error>>.
switch_group(sd, arg, group) ==
    LET new_func == arg_nibble(arg, group)
    IN  IF new_func = 15 THEN <<sd.selected_functions[group + 1], FALSE>>
        ELSE IF new_func \in CARD_FUNC[(5 - group) + 1] THEN <<new_func, FALSE>>
        ELSE <<15, TRUE>>

\* SD::recv_data into a buffer of `len` bytes: the card, what the buffer holds
\* afterwards, and whether the call panicked (a sector read without an image).
recv_data(sd, len) ==
    CASE sd.recv_action.tag = "None" ->
           [sd |-> sd, data |-> [kind |-> "untouched"], panic |-> FALSE]
      [] sd.recv_action.tag = "FTLRead" ->
           IF ~sd.image_file
           THEN [sd |-> sd, data |-> [kind |-> "untouched"], panic |-> TRUE]
           ELSE [sd |-> [sd EXCEPT !.recv_action =
                             FTLRead(sector_add(sd.recv_action.arg, len \div 512))],
                 data |-> [kind |-> "sectors", first |-> sd.recv_action.arg, len |-> len],
                 panic |-> FALSE]
      [] sd.recv_action.tag = "FunctionStatus" ->
           IF len < 64
           THEN [sd |-> sd, data |-> [kind |-> "untouched"], panic |-> FALSE]
           ELSE LET arg == sd.recv_action.arg
                    commit == arg[1] >= 32768           \* arg & 0x80000000 != 0
                    ans == [g \in 0..5 |-> switch_group(sd, arg, g)]
                    failed == \E g \in 0..5 : ans[g][2]
                    ret_status == [i \in 1..6 |-> ans[i - 1][1]]
                    s1 == IF commit /\ ~failed
                          THEN [sd EXCEPT !.selected_functions = ret_status]
                          ELSE sd
                IN  [sd |-> [to_state(s1, "Transfer") EXCEPT !.recv_action = RecvNone],
                     data |-> [kind |-> "function_status", ret_status |-> ret_status,
                               failed |-> failed],
                     panic |-> FALSE]
      [] sd.recv_action.tag = "SCRRead" ->
           IF len < 8
           THEN [sd |-> sd, data |-> [kind |-> "untouched"], panic |-> FALSE]
           ELSE [sd |-> [to_state(sd, "Transfer") EXCEPT !.recv_action = RecvNone],
                 data |-> [kind |-> "scr"], panic |-> FALSE]

\* ------------------------------------------------------- peripherals/sic.rs

\* SDCR, as its fields.
SDCR_default ==
    [co_en |-> 0, ri_en |-> 0, di_en |-> 0, do_en |-> 0, r2_en |-> 0,
     clk74_oe |-> 0, clk8_oe |-> 0, cmd_code |-> 0, swrst |-> 0, blkcnt |-> 0,
     sdport |-> 0]

\* SICConfig::default: the block length starts at 1.
SICConfig_default ==
    [dma_control |-> [reset |-> 0],
     dma_dest_addr |-> 0,
     dma_irq_enable |-> [target_abort |-> 0],
     dma_irq_status |-> [target_abort |-> 0],
     dma_count |-> 0,
     fmi_control |-> [reset |-> 0],
     sd_arg |-> <<0, 0>>,
     sd_response |-> [type |-> "none"],
     sd_control |-> SDCR_default,
     sd_irq_enable |-> [block_xfer_done |-> 0, timeout_cmd |-> 0, timeout_dat |-> 0],
     sd_irq |-> [block_xfer_done |-> 0, crc_ok_cmd |-> 0, crc_ok_dat |-> 0,
                 available |-> 0, timeout_cmd |-> 0, timeout_dat |-> 0],
     sd_io_size |-> 1,
     fifo |-> "zero"]

\* sic::write (a 4-byte access) to the registers the model drives.
sic_write(u, reg, value) ==
    CASE reg = "DMACCSR" -> [u EXCEPT !.sic.dma_control = value]
      [] reg = "DMACSAR" -> [u EXCEPT !.sic.dma_dest_addr = value]
      [] reg = "DMACBCR" -> [u EXCEPT !.sic.dma_count = value]
      [] reg = "DMACIER" -> [u EXCEPT !.sic.dma_irq_enable = value]
      [] reg = "FMICR" -> [u EXCEPT !.sic.fmi_control = value]
      [] reg = "SDARG" -> [u EXCEPT !.sic.sd_arg = value]
      [] reg = "SDCR" -> [u EXCEPT !.sic.sd_control = value,
                                   !.served = 0]
      [] reg = "SDIER" -> [u EXCEPT !.sic.sd_irq_enable = value]
      [] reg = "SDBLEN" -> [u EXCEPT !.sic.sd_io_size = value + 1]
      [] OTHER -> u

\* A reset check that clears the reset bits and lets the tick go on.
check_reset_goes_on(u) ==
    [uc |-> [u EXCEPT !.sic.dma_control.reset = 0,
                      !.sic.fmi_control.reset = 0,
                      !.sic.sd_irq.available = IF u.sic.sd_control.swrst = 1 THEN 1 ELSE @,
                      !.sic.sd_control.swrst = 0],
     ret |-> FALSE]

\* check_reset: each set reset bit is cleared; true when any was set.
check_reset(u) ==
    LET dma == u.sic.dma_control.reset = 1
        fmi == u.sic.fmi_control.reset = 1
        sw == u.sic.sd_control.swrst = 1
        u1 == IF dma THEN [u EXCEPT !.sic.dma_control.reset = 0] ELSE u
        u2 == IF fmi THEN [u1 EXCEPT !.sic.fmi_control.reset = 0] ELSE u1
        u3 == IF sw THEN [u2 EXCEPT !.sic.sd_irq.available = 1,
                                    !.sic.sd_control.swrst = 0]
              ELSE u2
    IN  [uc |-> u3, ret |-> dma \/ fmi \/ sw]

\* check_delay_condition: one pending clock-delay bit is consumed per call.
check_delay_condition(u) ==
    IF u.sic.sd_control.clk74_oe = 1
    THEN [uc |-> [u EXCEPT !.sic.sd_control.clk74_oe = 0], ret |-> TRUE]
    ELSE IF u.sic.sd_control.clk8_oe = 1
    THEN [uc |-> [u EXCEPT !.sic.sd_control.clk8_oe = 0, !.sic.sd_irq.available = 1],
          ret |-> TRUE]
    ELSE [uc |-> u, ret |-> FALSE]

\* The card a port number addresses.
port_card(sd_port) ==
    CASE sd_port = 0 -> "internal_sd" [] sd_port = 2 -> "external_sd" [] OTHER -> "none"

\* The response stored by the controller: R2 goes to the FIFO and clears r2_en,
\* the others go to the response registers and clear ri_en.
store_response(u, resp) ==
    IF resp.type = "R2"
    THEN [u EXCEPT !.sic.fifo = resp.cid_csd, !.sic.sd_control.r2_en = 0,
                   !.sic.sd_irq.crc_ok_cmd = 1]
    ELSE [u EXCEPT !.sic.sd_response = resp, !.sic.sd_control.ri_en = 0,
                   !.sic.sd_irq.crc_ok_cmd = 1]

\* The end of the command phase: the command-out bit is cleared.
command_done_keeps_co_en(u) == u

command_done(u) == [u EXCEPT !.sic.sd_control.co_en = 0]

\* A command phase that asks for the interrupt of a timeout only when the
\* command timeout is enabled.
command_result_one_enable(w, port, has_data, r) ==
    LET u0 == [w.uc EXCEPT !.served = @ + 1,
                           !.log = Append(@, <<"make_request", port>>)]
        t1 == [u0 EXCEPT !.sic.sd_irq.timeout_cmd = 1]
        t2 == IF has_data
              THEN [t1 EXCEPT !.sic.sd_control.di_en = 0,
                              !.sic.sd_control.do_en = 0,
                              !.sic.sd_irq.timeout_dat = 1]
              ELSE t1
        u1 == IF r.resp.type # "RNone" THEN store_response(u0, r.resp)
              ELSE IF t2.sic.sd_irq_enable.timeout_cmd = 1
              THEN post_interrupt([t2 EXCEPT !.log = Append(@, <<"post_interrupt", "sic">>)],
                                  17, TRUE, FALSE)
              ELSE t2
    IN  [w |-> [uc |-> command_done(u1),
                device |-> [w.device EXCEPT ![port] = r.sd]],
         skip_data |-> r.resp.type = "RNone"]

\* What sic::tick does with the card's answer r to the command: the response is
\* stored, or the timeouts are raised and the data phase is skipped; the
\* command-out bit is cleared either way.
command_result(w, port, has_data, r) ==
    LET u0 == [w.uc EXCEPT !.served = @ + 1,
                           !.log = Append(@, <<"make_request", port>>)]
        t1 == [u0 EXCEPT !.sic.sd_irq.timeout_cmd = 1]
        t2 == IF has_data
              THEN [t1 EXCEPT !.sic.sd_control.di_en = 0,
                              !.sic.sd_control.do_en = 0,
                              !.sic.sd_irq.timeout_dat = 1]
              ELSE t1
        u1 == IF r.resp.type # "RNone" THEN store_response(u0, r.resp)
              ELSE IF t2.sic.sd_irq_enable.timeout_cmd = 1
                      \/ (has_data /\ t2.sic.sd_irq_enable.timeout_dat = 1)
              THEN post_interrupt([t2 EXCEPT !.log = Append(@, <<"post_interrupt", "sic">>)],
                                  17, TRUE, FALSE)
              ELSE t2
    IN  [w |-> [uc |-> command_done(u1),
                device |-> [w.device EXCEPT ![port] = r.sd]],
         skip_data |-> r.resp.type = "RNone"]

\* The command phase of sic::tick: the world and skip_data.
sic_command(w, has_data_in, has_data_out) ==
    LET ctl == w.uc.sic.sd_control
        port == port_card(ctl.sdport)
    IN  IF ctl.co_en # 1 \/ port = "none" THEN [w |-> w, skip_data |-> FALSE]
        ELSE command_result(w, port, has_data_in \/ has_data_out,
                            make_request(w.device[port], ctl.cmd_code, w.uc.sic.sd_arg))

\* A data-in phase that leaves the transfer enabled when the write to guest
\* memory fails.
data_in_result_retries(w, port, size_final, mem_fails, r) ==
    LET u0 == [w.uc EXCEPT !.log = Append(@, <<"recv_data", port>>)]
        t1 == IF mem_fails
              THEN [u0 EXCEPT !.sic.dma_irq_status.target_abort = 1,
                              !.sic.sd_irq.crc_ok_dat = 0]
              ELSE [u0 EXCEPT !.sic.dma_count = @ + size_final,
                              !.sic.sd_irq.crc_ok_dat = 1,
                              !.sic.sd_irq.block_xfer_done = 1,
                              !.sic.dma_dest_addr = @ + size_final,
                              !.written = r.data]
        wanted == IF mem_fails THEN t1.sic.dma_irq_enable.target_abort = 1
                  ELSE t1.sic.sd_irq_enable.block_xfer_done = 1
        t2 == IF wanted
              THEN post_interrupt([t1 EXCEPT !.log = Append(@, <<"post_interrupt", "sic">>)],
                                  17, TRUE, FALSE)
              ELSE t1
    IN  IF r.panic THEN [w EXCEPT !.uc = [u0 EXCEPT !.panicked = TRUE]]
        ELSE [uc |-> IF mem_fails THEN t2
                     ELSE [t2 EXCEPT !.sic.sd_control.blkcnt = 0,
                                     !.sic.sd_control.di_en = 0],
              device |-> [w.device EXCEPT ![port] = r.sd]]

\* What sic::tick does with the block r the card returned: the write to guest
\* memory fails (target abort) or succeeds (counters advance, transfer done).
data_in_result(w, port, size_final, mem_fails, r) ==
    LET u0 == [w.uc EXCEPT !.log = Append(@, <<"recv_data", port>>)]
        t1 == IF mem_fails
              THEN [u0 EXCEPT !.sic.dma_irq_status.target_abort = 1,
                              !.sic.sd_irq.crc_ok_dat = 0]
              ELSE [u0 EXCEPT !.sic.dma_count = @ + size_final,
                              !.sic.sd_irq.crc_ok_dat = 1,
                              !.sic.sd_irq.block_xfer_done = 1,
                              !.sic.dma_dest_addr = @ + size_final,
                              !.written = r.data]
        wanted == IF mem_fails THEN t1.sic.dma_irq_enable.target_abort = 1
                  ELSE t1.sic.sd_irq_enable.block_xfer_done = 1
    IN  IF r.panic THEN [w EXCEPT !.uc = [u0 EXCEPT !.panicked = TRUE]]
        ELSE [uc |-> [(IF wanted
                       THEN post_interrupt([t1 EXCEPT !.log =
                                                Append(@, <<"post_interrupt", "sic">>)],
                                           17, TRUE, FALSE)
                       ELSE t1)
                         EXCEPT !.sic.sd_control.blkcnt = 0,
                                !.sic.sd_control.di_en = 0],
              device |-> [w.device EXCEPT ![port] = r.sd]]

\* A data-in phase of one block whatever the block count.
sic_data_in_one_block(w, sd_port, mem_fails) ==
    IF port_card(sd_port) = "none" THEN [w EXCEPT !.uc.sic.sd_control.di_en = 0]
    ELSE data_in_result(w, port_card(sd_port), w.uc.sic.sd_io_size, mem_fails,
                        recv_data(w.device[port_card(sd_port)], w.uc.sic.sd_io_size))

\* The data-in phase of sic::tick; mem_fails: the guest-memory write fails.
sic_data_in(w, sd_port, mem_fails) ==
    LET port == port_card(sd_port)
        size == w.uc.sic.sd_io_size
        mult == w.uc.sic.sd_control.blkcnt
        size_final == IF mult = 0 THEN size ELSE size * mult
    IN  IF port = "none" THEN [w EXCEPT !.uc.sic.sd_control.di_en = 0]
        ELSE data_in_result(w, port, size_final, mem_fails,
                            recv_data(w.device[port], size_final))

\* The data-out phase of sic::tick is not implemented: it panics.
sic_data_out(w) == [w EXCEPT !.uc.panicked = TRUE]

\* The data phases of sic::tick after the command phase c, with the control
\* bits ctl read before it.
sic_data(c, ctl, mem_fails) ==
    IF c.skip_data THEN c.w
    ELSE IF ctl.di_en = 1
    THEN IF ctl.do_en = 1
         THEN [sic_data_in(c.w, ctl.sdport, mem_fails) EXCEPT
                  !.uc.panicked = TRUE]
         ELSE sic_data_in(c.w, ctl.sdport, mem_fails)
    ELSE IF ctl.do_en = 1 THEN sic_data_out(c.w)
    ELSE c.w

\* sic::tick past the clock check: a reset or a clock delay (gate) ends the
\* tick; otherwise the command phase and the data phases run.
sic_transfer(w, gate, mem_fails) ==
    IF gate.ret THEN [w EXCEPT !.uc = gate.uc]
    ELSE sic_data(sic_command([w EXCEPT !.uc = gate.uc],
                              gate.uc.sic.sd_control.di_en = 1,
                              gate.uc.sic.sd_control.do_en = 1),
                  gate.uc.sic.sd_control, mem_fails)

\* check_reset(uc) || check_delay_condition(uc)
reset_or_delay(u) ==
    IF check_reset(u).ret THEN check_reset(u) ELSE check_delay_condition(u)

\* sic::tick: nothing without the SIC clock.
sic_tick(w, mem_fails) ==
    IF w.uc.panicked THEN w
    ELSE IF ~w.uc.clk.ahbclk.sic THEN [w EXCEPT !.uc.log = Append(@, <<"tick", "sic">>)]
    ELSE sic_transfer([w EXCEPT !.uc.log = Append(@, <<"tick", "sic">>)],
                      reset_or_delay([w.uc EXCEPT !.log = Append(@, <<"tick", "sic">>)]),
                      mem_fails)

\* ------------------------------------------------------- peripherals/sys.rs

F_BASE == 12000000
F_BASE_RTC == 32000
F_APLL_BOOT == 72000000
F_UPLL_BOOT == 192000000

\* get_pll(source).get_fout(): the two crystals, and the PLLs as run_bootrom
\* programs them (0x0001c02e and 0x0000447e through calculate_pll_fout).
pll_fout(source) ==
    CASE source = "XIN" -> F_BASE
      [] source = "X32K" -> F_BASE_RTC
      [] source = "APLL" -> F_APLL_BOOT
      [] source = "UPLL" -> F_UPLL_BOOT

\* ClockConfig::update_tick_config.
update_tick_config(clk) ==
    LET sys_div == (clk.clkdiv0.sys_prediv + 1) * (clk.clkdiv0.sys_div + 1)
        f_sys == pll_fout(clk.clkdiv0.sys_source) \div sys_div
        f_cpu == f_sys \div (clk.clkdiv4.cpu_div + 1)
        hclk1 == IF clk.clkdiv4.cpu_div = 0 THEN 2 ELSE 1
    IN  [clk EXCEPT !.tick_config = [f_cpu |-> f_cpu, hclk1 |-> hclk1,
                                     apb |-> hclk1 * (clk.clkdiv4.apb_div + 1),
                                     vsync |-> f_cpu \div 60]]

\* The clock state after run_bootrom: CPU and SRAM clocks on, the dividers at
\* their defaults, the tick configuration computed from them.
ClockConfig_boot ==
    update_tick_config(
        [ahbclk |-> [cpu |-> TRUE, sic |-> FALSE],
         clkdiv0 |-> [sys_prediv |-> 0, sys_source |-> "XIN", sys_div |-> 0],
         clkdiv4 |-> [cpu_div |-> 0, apb_div |-> 0],
         tick_config |-> [f_cpu |-> 0, hclk1 |-> 0, apb |-> 0, vsync |-> 0]])

\* sys::write to AHBCLK (which asks for a Tick stop) and to the dividers.
sys_write(u, reg, value) ==
    CASE reg = "AHBCLK" -> request_stop([u EXCEPT !.clk.ahbclk = value], Tick)
      [] reg = "CLKDIV0" -> [u EXCEPT !.clk = update_tick_config([@ EXCEPT !.clkdiv0 = value])]
      [] reg = "CLKDIV4" -> [u EXCEPT !.clk = update_tick_config([@ EXCEPT !.clkdiv4 = value])]
      [] OTHER -> u

\* device::request_quit(uc, detail).
request_quit(u, detail) == request_stop(u, Quit(detail))

\* sys::tick: a stopped CPU clock ends the session.
sys_tick(u) ==
    LET u0 == [u EXCEPT !.log = Append(@, <<"tick", "sys">>)]
    IN  IF ~u0.clk.ahbclk.cpu THEN request_quit(u0, "CPUHalt") ELSE u0

\* ------------------------------------------------------- peripherals/rtc.rs

\* RTCConfig::default: PowerControl starts with power_on set.
RTCConfig_default ==
    [write_enabled |-> FALSE,
     power_control |-> [power_on |-> TRUE, power_off |-> FALSE]]

\* rtc::write: AER with the magic value unlocks; anything else needs the unlock;
\* PWRON asks for a Tick stop when the new value powers the device off.
rtc_write(u, reg, value) ==
    IF reg = "AER" /\ value = "MAGIC_WRITE" THEN [u EXCEPT !.rtc.write_enabled = TRUE]
    ELSE IF ~u.rtc.write_enabled THEN u
    ELSE IF reg = "PWRON"
    THEN LET u0 == [u EXCEPT !.rtc.power_control = value]
         IN  IF ~value.power_on \/ value.power_off THEN request_stop(u0, Tick) ELSE u0
    ELSE u

\* rtc::tick: power off writes the stop reason directly.
rtc_tick(u) ==
    LET u0 == [u EXCEPT !.log = Append(@, <<"tick", "rtc">>)]
    IN  IF u0.rtc.power_control.power_off \/ ~u0.rtc.power_control.power_on
        THEN [u0 EXCEPT !.stop_reason = Quit("CPUHalt")]
        ELSE u0

\* ------------------------------------------------------- peripherals/tmr.rs

TimerModes == {"OneShot", "Periodic", "Toggle", "Uninterrupted"}

TimerChannel_default ==
    [count |-> 0, compare |-> 0,
     control |-> [prescale |-> 0, reset |-> FALSE, mode |-> "OneShot", enable |-> FALSE],
     level |-> FALSE]

TimerConfig_default ==
    [status |-> {}, channels |-> <<TimerChannel_default, TimerChannel_default>>]

\* TimerChannel::check_irq_condition: <<channel, fired>>.
check_irq_condition(t) ==
    IF ~t.control.enable THEN [timer |-> t, ret |-> FALSE]
    ELSE IF t.count # t.compare THEN [timer |-> t, ret |-> FALSE]
    ELSE CASE t.control.mode = "OneShot" ->
                [timer |-> [t EXCEPT !.control.enable = FALSE], ret |-> TRUE]
           [] t.control.mode = "Periodic" ->
                [timer |-> [t EXCEPT !.count = 0], ret |-> TRUE]
           [] t.control.mode = "Toggle" ->
                IF t.level
                THEN [timer |-> [t EXCEPT !.count = 0, !.level = FALSE], ret |-> FALSE]
                ELSE [timer |-> [t EXCEPT !.count = 0], ret |-> TRUE]
           [] OTHER -> [timer |-> t, ret |-> TRUE]

\* TimerChannel::reset_counter and TimerChannel::reset.
reset_counter(t) == [t EXCEPT !.count = 0, !.level = FALSE]
timer_reset(t) == reset_counter([t EXCEPT !.control.reset = FALSE, !.control.enable = FALSE])

\* tmr::write to TCSRn (ch = 1, 2 for channel 0, 1) and TICRn.
tmr_write(u, reg, ch, value) ==
    CASE reg = "TCSR" ->
           LET t == [u.tmr.channels[ch] EXCEPT !.control = value]
           IN  [u EXCEPT !.tmr.channels[ch] = IF value.reset THEN timer_reset(t) ELSE t]
      [] reg = "TICR" ->
           [u EXCEPT !.tmr.channels[ch] = reset_counter([@ EXCEPT !.compare = value])]
      [] OTHER -> u

\* The counting loop of generate_stop_condition for one channel.
timer_count(t, steps, div_apb) ==
    IF t.control.enable /\ steps % (div_apb * (t.control.prescale + 1)) = 0
    THEN [t EXCEPT !.count = @ + 1]
    ELSE t

\* One channel's match in generate_stop_condition: the status bit and the
\* interrupt (TMR0 = 14, TMR1 = 15).
timer_fire(u, ch) ==
    LET r == check_irq_condition(u.tmr.channels[ch])
        u0 == [u EXCEPT !.tmr.channels[ch] = r.timer]
    IN  IF r.ret
        THEN post_interrupt([u0 EXCEPT !.tmr.status = @ \cup {ch - 1}], 13 + ch, TRUE, FALSE)
        ELSE u0

\* tmr::generate_stop_condition.
tmr_generate_stop_condition(u, steps) ==
    LET div_apb == u.clk.tick_config.apb
    IN  IF steps % div_apb # 0 THEN u
        ELSE LET u0 == [u EXCEPT !.tmr.channels =
                           [ch \in 1..2 |-> timer_count(u.tmr.channels[ch], steps, div_apb)]]
                 u1 == timer_fire(u0, 1)
             IN  IF u1.panicked THEN u1 ELSE timer_fire(u1, 2)

\* ------------------------------------------------------- peripherals/vpost.rs

\* vpost::generate_stop_condition: a frame step every vsync steps; a vsync
\* divider of zero is a division by zero.
vpost_generate_stop_condition(u, steps) ==
    LET div_vsync == u.clk.tick_config.vsync
    IN  IF div_vsync = 0 THEN [u EXCEPT !.panicked = TRUE]
        ELSE IF steps % div_vsync = 0 THEN request_stop(u, FrameStep)
        ELSE u

\* ------------------------------------------------------- peripherals/blt.rs

FIXED_ONE == 65536

BLTConfig_default ==
    [flags |-> [trigger |-> FALSE, fill |-> FALSE],
     status |-> [status |-> FALSE, error |-> FALSE, enabled |-> FALSE],
     elements |-> <<0, 0, 0, 0>>]

\* blt::write to SET (a trigger asks for a Tick stop), BLTINTCR and the
\* transform elements.
blt_write(u, reg, value) ==
    CASE reg = "SET" ->
           LET u0 == [u EXCEPT !.blt.flags = value]
           IN  IF value.trigger THEN request_stop(u0, Tick) ELSE u0
      [] reg = "BLTINTCR" ->
           [u EXCEPT !.blt.status =
                [status |-> IF value.clear_status THEN FALSE ELSE @.status,
                 error |-> IF value.clear_error THEN FALSE ELSE @.error,
                 enabled |-> value.enabled]]
      [] reg = "ELEMENTS" -> [u EXCEPT !.blt.elements = value]
      [] OTHER -> u

\* blt::tick: a fill completes at once; a copy needs the identity transform
\* (anything else is not implemented and panics) and panics when guest memory
\* cannot be read or written; completion posts BLT = 11 when enabled.
blt_tick(u, mem_fails) ==
    LET u0 == [u EXCEPT !.log = Append(@, <<"tick", "blt">>)]
    IN  IF u.panicked THEN u
        ELSE IF ~u0.blt.flags.trigger THEN u0
        ELSE IF u0.blt.flags.fill
        THEN LET u1 == [u0 EXCEPT !.blt.flags.fill = FALSE, !.blt.flags.trigger = FALSE,
                                  !.blt.status.status = TRUE]
             IN  IF u1.blt.status.enabled THEN post_interrupt(u1, 11, TRUE, FALSE) ELSE u1
        ELSE IF u0.blt.elements # <<FIXED_ONE, 0, 0, FIXED_ONE>> \/ mem_fails
        THEN [u0 EXCEPT !.panicked = TRUE]
        ELSE LET u1 == [u0 EXCEPT !.blt.status.status = TRUE, !.blt.flags.trigger = FALSE]
             IN  IF u1.blt.status.enabled THEN post_interrupt(u1, 11, TRUE, FALSE) ELSE u1

\* ------------------------------------------------------- device.rs: the scheduler

\* check_stop_condition, the hook before every instruction: count the step, let
\* the display and the timers ask for a stop.
check_stop_condition(u) ==
    LET u0 == [u EXCEPT !.steps = @ + 1]
        u1 == vpost_generate_stop_condition(u0, u0.steps)
    IN  IF u1.panicked THEN u1 ELSE tmr_generate_stop_condition(u1, u0.steps)

\* exception::intr, the interrupt hook: interrupt 2 is a supervisor call.
intr(u, intno) ==
    IF intno = 2 THEN request_stop(u, SVC) ELSE request_stop(u, Quit("CPUException"))

\* vpost::write to LCDC_CTL.
vpost_write(u, reg, value) ==
    IF reg = "LCDC_CTL" THEN [u EXCEPT !.vpost.control = value] ELSE u

\* The FrameStep arm of Device::tick: copy the frame when the display runs
\* (reading guest memory, which panics on failure), present it, and turn a
\* presentation failure into Quit(HLECallbackFailure).
frame_step(u, in) ==
    IF u.vpost.control.run /\ in.mem_fails THEN [u EXCEPT !.panicked = TRUE]
    ELSE LET u0 == IF u.vpost.control.run
                   THEN [u EXCEPT !.log = Append(@, <<"copy", "frame">>)]
                   ELSE u
             u1 == [u0 EXCEPT !.log = Append(@, <<"present", "frame">>)]
         IN  IF in.render_fails
             THEN [u1 EXCEPT !.stop_reason = Quit("HLECallbackFailure")]
             ELSE u1

\* The Tick arm of Device::tick: aic, sys, rtc, sic, blt, in this order.
tick_devices(w, in) ==
    [sic_tick([w EXCEPT !.uc = rtc_tick(sys_tick(aic_tick(@, in.vector)))], in.mem_fails)
        EXCEPT !.uc = blt_tick(@, in.mem_fails)]

\* The match of Device::tick on a reason other than Quit.
serve(w, tag, in) ==
    CASE tag = "FrameStep" -> [w EXCEPT !.uc = frame_step(w.uc, in)]
      [] tag = "SVC" ->
           [w EXCEPT !.uc = call_exception_handler(w.uc, "SupervisorCall", in.vector).uc]
      [] tag = "Tick" -> tick_devices(w, in)
      [] OTHER -> w

\* mem::take of the stop reason and the result of the pass (none when the pass
\* panicked).
take_reason(w) ==
    IF w.uc.panicked THEN [w |-> w, ret |-> FALSE]
    ELSE [w |-> [w EXCEPT !.uc.stop_reason = Run], ret |-> w.uc.stop_reason.tag # "Quit"]

\* A pass that serves first and looks for Quit only afterwards.
Device_tick_checks_quit_last(w, in) ==
    take_reason(serve(w, IF w.uc.stop_reason.tag = "Quit" THEN "Tick"
                         ELSE w.uc.stop_reason.tag, in))

\* Device::tick: a recorded Quit returns false at once; otherwise the recorded
\* reason is served, the stop reason is taken, and the pass returns false when
\* the taken reason is a Quit.
Device_tick(w, in) ==
    IF w.uc.stop_reason.tag = "Quit" THEN [w |-> w, ret |-> FALSE]
    ELSE take_reason(serve(w, w.uc.stop_reason.tag, in))

\* ------------------------------------------------------- the emulator state

\* ExtraState::default with the CPU registers main() starts from.  History
\* fields: owed (a latch the controller's tick has not seen), served (card
\* requests since the last write of SDCR), written (the last block written to
\* guest memory), log (the events of the running handler).
ExtraState_default ==
    [stop_reason |-> Run,
     steps |-> 0,
     aic |-> AICConfig_default,
     cpu |-> [pc |-> [region |-> "sdram", off |-> 0],
              cpsr |-> {0, 1, 4, 6, 7},
              spsr |-> {},
              lr |-> [region |-> "sdram", off |-> 0]],
     clk |-> ClockConfig_boot,
     sic |-> SICConfig_default,
     rtc |-> RTCConfig_default,
     tmr |-> TimerConfig_default,
     blt |-> BLTConfig_default,
     panicked |-> FALSE,
     vpost |-> [control |-> [run |-> FALSE]],
     owed |-> FALSE,
     requests |-> <<>>,
     served |-> 0,
     written |-> [kind |-> "nothing"],
     log |-> <<>>]

\* Every handler starts with an empty event log and an empty list of requests.
Begin(u) == [u EXCEPT !.log = <<>>, !.requests = <<>>]

\* The reasons the running handler has asked for.
asked(u) == {u.requests[i].reason.tag : i \in DOMAIN u.requests}

\* The events of the running handler.
events(u) == {u.log[i] : i \in DOMAIN u.log}

NoOp == [op |-> "init"]

InitCommon ==
    /\ uc = ExtraState_default
    /\ device = [internal_sd |-> SD_default, external_sd |-> SD_default]
    /\ phase = "hook"
    /\ overflow_checks \in BOOLEAN
    /\ last = NoOp
    /\ ops = 0

\* ------------------------------------------------------- the interrupt controller alone

\* An operation runs while the process has not panicked; a run is bounded.
AicStep == ~uc.panicked /\ ops < MaxAicOps /\ ops' = ops + 1

\* A peripheral posts an interrupt.
PostInterrupt ==
    \E intno \in AicSources, incoming \in BOOLEAN, latched \in BOOLEAN :
        /\ AicStep
        /\ uc' = post_interrupt(Begin(uc), intno, incoming, latched)
        /\ last' = [op |-> "post_interrupt", intno |-> intno, incoming |-> incoming,
                    latched |-> latched,
                    shift |-> as_offset_shift(intno)[2],
                    ret |-> check_interrupt(uc.aic, intno, incoming, latched).ret]
        /\ UNCHANGED <<device, phase, overflow_checks>>

\* The guest writes a word of the priority table.
AicWriteLevel ==
    \E w \in LevelSlots, v \in LevelWords :
        /\ AicStep
        /\ uc' = aic_write(Begin(uc), <<"SCR", w>>, v)
        /\ last' = [op |-> "aic_write", reg |-> "SCR", value |-> v]
        /\ UNCHANGED <<device, phase, overflow_checks>>

\* The guest writes a control register.
AicWrite ==
    \E r \in {"IMR", "ISR", "MECR", "MDCR", "SSCR", "SCCR", "EOSCR"}, v \in AicMasks :
        /\ AicStep
        /\ uc' = aic_write(Begin(uc), <<r, 0>>, v)
        /\ last' = [op |-> "aic_write", reg |-> r, value |-> v]
        /\ UNCHANGED <<device, phase, overflow_checks>>

\* The guest reads a register.
AicRead ==
    \E r \in {"ISR", "ISNR", "IPER", "IMR"} :
        /\ AicStep
        /\ LET res == aic_read(Begin(uc), <<r, 0>>)
           IN  /\ uc' = res.uc
               /\ last' = [op |-> "aic_read", reg |-> r, ret |-> res.ret]
        /\ UNCHANGED <<device, phase, overflow_checks>>

\* The controller's tick, as a Tick dispatch pass runs it.
AicTick ==
    \E fail \in TickFailures :
        /\ AicStep
        /\ uc' = aic_tick(Begin(uc), fail)
        /\ last' = [op |-> "aic_tick", fail |-> fail]
        /\ UNCHANGED <<device, phase, overflow_checks>>

NextAIC == PostInterrupt \/ AicWriteLevel \/ AicWrite \/ AicRead \/ AicTick

SpecAIC == InitCommon /\ [][NextAIC]_vars

\* ------------------------------------------------------- the card alone

\* main() or a test mounts the card.  No operation runs after a panic.
SdMount ==
    \E hc \in BOOLEAN :
        LET r == sd_mount(device.internal_sd, hc)
        IN  /\ ~uc.panicked
            /\ device' = [device EXCEPT !.internal_sd = r.sd]
            /\ last' = [op |-> "mount", ok |-> r.ok]
            /\ UNCHANGED <<uc, phase, overflow_checks, ops>>

SdUnmount ==
    /\ ~uc.panicked
    /\ device' = [device EXCEPT !.internal_sd = sd_unmount(@)]
    /\ last' = [op |-> "unmount"]
    /\ UNCHANGED <<uc, phase, overflow_checks, ops>>

\* The host controller sends the command rq.
SdSend(rq) ==
    LET cmd == rq[1]
        arg == rq[2]
        r == make_request(device.internal_sd, cmd, arg)
    IN  /\ ~uc.panicked
        /\ device' = [device EXCEPT !.internal_sd = r.sd]
        /\ last' = [op |-> "make_request", cmd |-> cmd, arg |-> arg,
                    resp |-> r.resp, illegal |-> r.illegal,
                    acmd |-> BIT_APP_COMMAND \in device.internal_sd.card_status]
        /\ UNCHANGED <<uc, phase, overflow_checks, ops>>

\* The host controller sends a command.
SdRequest == \E rq \in SdRequests : SdSend(rq)

\* The host controller services a data-in phase: recv_data into a buffer.  A
\* staged sector read advances a bounded distance.  in_image says whether the
\* requested range lies inside the backing image: when it does not, read_exact
\* fails, the error is logged and the buffer holds no defined data.
SdRecvData ==
    \E len \in BufferLens, in_image \in BOOLEAN :
        LET sd == device.internal_sd
            r == recv_data(sd, len)
        IN  /\ ~uc.panicked
            /\ sd.recv_action.tag = "FTLRead" =>
                   sd.recv_action.arg[2] % 512 < MaxSectorAdvance
            /\ r.data.kind # "sectors" => in_image
            /\ device' = [device EXCEPT !.internal_sd = r.sd]
            /\ uc' = [uc EXCEPT !.panicked = r.panic]
            /\ last' = [op |-> "recv_data", len |-> len, panic |-> r.panic,
                        data |-> IF in_image THEN r.data
                                 ELSE [r.data EXCEPT !.kind = "read_failed"]]
            /\ UNCHANGED <<phase, overflow_checks, ops>>

NextSD == SdMount \/ SdUnmount \/ SdRequest

\* The card does no arithmetic that the build profile changes.
InitSD == InitCommon /\ ~overflow_checks

SpecSD == InitSD /\ [][NextSD]_vars

\* ------------------------------------------------------- the card's data phases

\* The card after a sequence of commands.
RECURSIVE CardAfter(_, _)
CardAfter(sd, seq) ==
    IF seq = <<>> THEN sd
    ELSE CardAfter(make_request(sd, Head(seq)[1], Head(seq)[2]).sd, Tail(seq))

\* The host controller sends a command to the selected card.
SdDataRequest == \E rq \in SdDataRequests : SdSend(rq)

NextSDData == SdMount \/ SdUnmount \/ SdDataRequest \/ SdRecvData

\* A run of the data phases starts from a mounted card that the guest's driver
\* has brought up and selected.
InitSDData ==
    /\ uc = ExtraState_default
    /\ \E hc \in BOOLEAN :
          device = [internal_sd |-> CardAfter(sd_mount(SD_default, hc).sd, BringUp),
                    external_sd |-> SD_default]
    /\ phase = "hook"
    /\ overflow_checks = FALSE
    /\ last = NoOp
    /\ ops = 0

SpecSDData == InitSDData /\ [][NextSDData]_vars

\* ------------------------------------------------------- the status word
\* CardStatus is a 32-bit word with public accessors; the status words read
\* here are the empty word, every word of one or two bits, and the full word
\* and every word lacking one bit.
StatusWords ==
    {{a, b} : a, b \in 0..31} \cup {(0..31) \ {a} : a \in 0..31} \cup {{}, 0..31}

InitStatus ==
    /\ uc = ExtraState_default
    /\ \E cs \in StatusWords :
          device = [internal_sd |-> [SD_default EXCEPT !.card_status = cs],
                    external_sd |-> SD_default]
    /\ phase = "hook"
    /\ overflow_checks = FALSE
    /\ last = NoOp
    /\ ops = 0

\* CardStatus::after_read on the internal card's status word.
StatusAfterRead ==
    LET r == after_read(device.internal_sd.card_status)
    IN  /\ device' = [device EXCEPT !.internal_sd.card_status = r.status]
        /\ last' = [op |-> "after_read", returned |-> r.before_clear]
        /\ UNCHANGED <<uc, phase, overflow_checks, ops>>

SpecStatus == InitStatus /\ [][StatusAfterRead]_vars

\* ------------------------------------------------------- the whole machine

\* One guest instruction: its hooks and register writes.
guest_instruction(u, g) ==
    CASE g.kind = "intr" -> intr(u, g.intno)
      [] g.kind = "sys" -> sys_write(u, g.reg, g.value)
      [] g.kind = "tmr" -> tmr_write(u, g.reg, g.ch, g.value)
      [] g.kind = "aic" -> aic_write(u, g.reg, g.value)
      [] g.kind = "rtc" -> rtc_write(u, g.reg, g.value)
      [] g.kind = "sic" -> sic_write(u, g.reg, g.value)
      [] g.kind = "blt" -> blt_write(u, g.reg, g.value)
      [] g.kind = "vpost" -> vpost_write(u, g.reg, g.value)
      [] OTHER -> u

\* The hook before an instruction; it stops the engine when a reason is recorded.
CheckStopCondition ==
    /\ phase = "hook" /\ ~uc.panicked /\ uc.steps < MaxSteps
    /\ uc' = check_stop_condition(Begin(uc))
    /\ phase' = IF uc'.stop_reason # Run THEN "dispatch" ELSE "exec"
    /\ last' = [op |-> "check_stop_condition", asked |-> asked(uc')]
    /\ UNCHANGED <<device, overflow_checks, ops>>

\* The instruction the hook let through.
ExecInstruction ==
    \E g \in GuestOps :
        /\ phase = "exec" /\ ~uc.panicked
        /\ uc' = guest_instruction(Begin(uc), g)
        /\ phase' = "hook"
        /\ last' = [op |-> "exec"]
        /\ UNCHANGED <<device, overflow_checks, ops>>

\* The dispatch pass of the run loop; the loop ends when it returns false.
DeviceTick ==
    \E in \in PassInputs :
        /\ phase = "dispatch" /\ ~uc.panicked
        /\ \E r \in {Device_tick([uc |-> Begin(uc), device |-> device], in)} :
               /\ uc' = r.w.uc
               /\ device' = r.w.device
               /\ phase' = IF r.ret THEN "hook" ELSE "halted"
               /\ last' = [op |-> "device_tick", hook |-> last.asked,
                           started |-> uc.stop_reason, ret |-> r.ret,
                           render_failed |-> uc.stop_reason = FrameStep /\ in.render_fails]
        /\ UNCHANGED <<overflow_checks, ops>>

NextSched == CheckStopCondition \/ ExecInstruction \/ DeviceTick

\* main(): the internal card is mounted before the loop starts.
InitSched ==
    /\ uc = ExtraState_default
    /\ device = [internal_sd |-> sd_mount(SD_default, FALSE).sd, external_sd |-> SD_default]
    /\ phase = "hook"
    /\ overflow_checks \in BOOLEAN
    /\ last = NoOp
    /\ ops = 0

SpecSched == InitSched /\ [][NextSched]_vars

\* ------------------------------------------------------- the loop without end
\* The loop of main() run for ever.  The guest has switched the system clock to
\* the 32 kHz crystal divided by 8 * 16, so that frames are a few instructions
\* apart; it goes on to change CLKDIV4, start the display, start a fill of the
\* blitter, turn the SIC clock on and write a command to SDCR.  The step
\* counter is kept modulo StepPeriod, which every divider of these
\* configurations divides (the code only ever takes the counter modulo them).
SlowClock == [sys_prediv |-> 7, sys_source |-> "X32K", sys_div |-> 15]
StepPeriod == (F_BASE_RTC \div (8 * 16)) \div 60

ProgressOps ==
    {[kind |-> "plain"],
     [kind |-> "sys", reg |-> "CLKDIV4", value |-> [cpu_div |-> 2, apb_div |-> 0]],
     [kind |-> "sys", reg |-> "AHBCLK", value |-> [cpu |-> TRUE, sic |-> TRUE]],
     [kind |-> "sic", reg |-> "SDCR", value |-> SdcrCommand(9, 0, 0)],
     [kind |-> "blt", reg |-> "SET", value |-> [trigger |-> TRUE, fill |-> TRUE]],
     [kind |-> "vpost", reg |-> "LCDC_CTL", value |-> [run |-> TRUE]]}

InitProgress ==
    /\ uc = [ExtraState_default EXCEPT
                 !.clk = update_tick_config([@ EXCEPT !.clkdiv0 = SlowClock])]
    /\ device = [internal_sd |-> sd_mount(SD_default, FALSE).sd, external_sd |-> SD_default]
    /\ phase = "hook"
    /\ overflow_checks = FALSE
    /\ last = NoOp
    /\ ops = 0

\* The hook before an instruction: check_stop_condition.
HookProgress ==
    /\ phase = "hook" /\ ~uc.panicked
    /\ uc' = [check_stop_condition(Begin(uc)) EXCEPT !.steps = @ % StepPeriod]
    /\ phase' = IF uc'.stop_reason # Run THEN "dispatch" ELSE "exec"
    /\ last' = [op |-> "check_stop_condition", asked |-> asked(uc')]
    /\ UNCHANGED <<device, overflow_checks, ops>>

\* The instruction the hook let through.
ExecProgress ==
    \E g \in ProgressOps :
        /\ phase = "exec" /\ ~uc.panicked
        /\ uc' = guest_instruction(Begin(uc), g)
        /\ phase' = "hook"
        /\ last' = [op |-> "exec"]
        /\ UNCHANGED <<device, overflow_checks, ops>>

NextProgress == HookProgress \/ ExecProgress \/ DeviceTick

\* The loop is one thread that never waits: it always takes its next step.
SpecProgress == InitProgress /\ [][NextProgress]_vars /\ WF_vars(NextProgress)

\* ------------------------------------------------------- the SD host controller alone

SicStep == ~uc.panicked /\ ops < MaxSicOps /\ ops' = ops + 1

\* The guest writes SDCR.
SicWriteControl ==
    \E v \in SdcrWrites :
        /\ SicStep
        /\ uc' = sic_write(Begin(uc), "SDCR", v)
        /\ last' = [op |-> "sic_write", reg |-> "SDCR"]
        /\ UNCHANGED <<device, phase, overflow_checks>>

\* The guest enables the controller's interrupts or sets the block length.
SicWriteSetup ==
    \E r \in SicSetupWrites :
        /\ SicStep
        /\ uc' = sic_write(Begin(uc), r[1], r[2])
        /\ last' = [op |-> "sic_write", reg |-> r[1]]
        /\ UNCHANGED <<device, phase, overflow_checks>>

\* The guest turns the controller's clock on or off.
SicClock ==
    \E on \in BOOLEAN :
        /\ SicStep
        /\ uc' = sys_write(Begin(uc), "AHBCLK", [cpu |-> TRUE, sic |-> on])
        /\ last' = [op |-> "sys_write", reg |-> "AHBCLK"]
        /\ UNCHANGED <<device, phase, overflow_checks>>

\* The controller's tick, as a Tick dispatch pass runs it.
SicTick ==
    \E mem_fails \in BOOLEAN :
        /\ SicStep
        /\ \E w \in {sic_tick([uc |-> Begin(uc), device |-> device], mem_fails)} :
               uc' = w.uc /\ device' = w.device
        /\ last' = [op |-> "sic_tick", mem_fails |-> mem_fails]
        /\ UNCHANGED <<phase, overflow_checks>>

NextSIC == SicWriteControl \/ SicWriteSetup \/ SicClock \/ SicTick

InitSIC == InitSched /\ ~overflow_checks

SpecSIC == InitSIC /\ [][NextSIC]_vars

\* ------------------------------------------------------- exception delivery alone

\* Status register values at the time of an exception: supervisor mode with
\* both masks set (the boot value); user mode with nothing masked; user mode in
\* Thumb state with N set and FIQ masked; system mode with IRQ masked and the
\* Z, C flags set.
ExcCpsrs == {{0, 1, 4, 6, 7}, {4}, {4, 5, 6, 31}, {0, 1, 2, 3, 4, 7, 29, 30}}

\* The number of exceptions delivered in a run.
MaxExcOps == 2

\* Resume points.
ExcResumePoints == {[region |-> "sdram", off |-> 0], [region |-> "sdram", off |-> 256]}

InitExc ==
    /\ \E c \in ExcCpsrs, p \in ExcResumePoints :
          uc = [ExtraState_default EXCEPT !.cpu.cpsr = c, !.cpu.pc = p]
    /\ device = [internal_sd |-> SD_default, external_sd |-> SD_default]
    /\ phase = "hook"
    /\ overflow_checks \in BOOLEAN
    /\ last = NoOp
    /\ ops = 0

\* An exception of any kind is delivered; one of the register accesses may
\* fail.  A run is bounded.
CallExceptionHandler ==
    \E k \in ExceptionKinds, fail \in VectorFailures :
        \E r \in {call_exception_handler(Begin(uc), k, fail)} :
            /\ ops < MaxExcOps
            /\ ops' = ops + 1
            /\ uc' = r.uc
            /\ last' = [op |-> "call_exception_handler", kind |-> k, fail |-> fail,
                        ok |-> r.ok, pc |-> uc.cpu.pc, cpsr |-> uc.cpu.cpsr]
            /\ UNCHANGED <<device, phase, overflow_checks>>

NextExc == CallExceptionHandler

SpecExc == InitExc /\ [][NextExc]_vars

\* ------------------------------------------------------- claims

Card == device.internal_sd

\* C1: in every state reachable by interrupt-controller operations, for each
\* priority p in 0..7, bit p of status_map is set if and only if status[p] is
\* nonzero.
C1_SummaryInLockStep ==
    \A p \in 0..7 : (p \in uc.aic.status_map) <=> (uc.aic.status[p] # {})

\* C2: on a mounted card, a command rejected as illegal returns RNone, sets the
\* illegal-command bit and leaves current_state, the relative address, the block
\* length, the selected functions and the staged actions unchanged; CMD9 in Idle
\* is such a command and the card stays Idle.
C2_IllegalLeavesCardUnchanged ==
    [][(last'.op = "make_request" /\ is_mounted(Card)) =>
          /\ last'.illegal =>
                /\ last'.resp = RNone
                /\ BIT_ILLEGAL_COMMAND \in Card'.card_status
                /\ state_of(Card') = state_of(Card)
                /\ Card'.rca = Card.rca
                /\ Card'.io_size = Card.io_size
                /\ Card'.selected_functions = Card.selected_functions
                /\ Card'.send_action = Card.send_action
                /\ Card'.recv_action = Card.recv_action
          /\ (last'.cmd = 9 /\ state_of(Card) = "Idle") =>
                /\ last'.illegal
                /\ last'.resp = RNone
                /\ state_of(Card') = "Idle"]_vars

\* C2 witness: CMD9 was rejected on a mounted card that had left Idle before and
\* come back, and on one with a staged receive action.
C2_Witness ==
    /\ last.op = "make_request" /\ last.illegal /\ is_mounted(Card)
    /\ last.cmd = 9
    /\ state_of(Card) = "SendingData"
    /\ Card.recv_action # RecvNone
    /\ Card.rca = 1

\* C3: on a mounted card in any reachable state, command code 0 leaves the card
\* in Idle with all 32 status bits clear and relative address 0.
C3_Cmd0ResetsCard ==
    (last.op = "make_request" /\ last.cmd = 0 /\ is_mounted(Card)) =>
        /\ Card.card_status = {}
        /\ state_of(Card) = "Idle"
        /\ Card.rca = 0

\* C4: the application-command latch is consumed by the command that follows
\* CMD55, accepted or rejected: after a command dispatched with the latch set,
\* the latch is clear.
C4_LatchConsumedByNextCommand ==
    (last.op = "make_request" /\ last.acmd /\ is_mounted(Card)) =>
        BIT_APP_COMMAND \notin Card.card_status

\* C5: whenever the hook before an instruction raises both FrameStep and Tick
\* (the timer's latch through post_interrupt), the dispatch pass that follows
\* presents the frame and runs the device ticks, and no stop reason is recorded
\* when the core resumes.
C5_BothReasonsServiced ==
    (/\ last.op = "device_tick"
     /\ {"FrameStep", "Tick"} \subseteq last.hook
     /\ last.started.tag # "Quit"
     /\ ~uc.panicked)
    => (/\ <<"present", "frame">> \in events(uc)
        /\ <<"tick", "aic">> \in events(uc)
        /\ uc.stop_reason = Run)

\* C6: a Tick requested while a dispatch pass is running is still the recorded
\* stop reason when that pass returns to the run loop.
C6_MidPassRequestKept ==
    (/\ last.op = "device_tick"
     /\ last.ret
     /\ "Tick" \in asked(uc)
     /\ ~uc.panicked)
    => uc.stop_reason = Tick

\* C7: no guest instruction executes while a latch made by post_interrupt has
\* not been followed by the interrupt controller's tick.
C7_AicTickBeforeNextInstruction ==
    phase = "exec" => ~uc.owed

\* C8: every request_stop call made while a Quit is recorded leaves the recorded
\* reason as it was, and every call asking for a Quit while another reason (or
\* none) is recorded records the Quit asked for.
C8_QuitIsSticky ==
    \A i \in DOMAIN uc.requests :
        LET q == uc.requests[i]
        IN  /\ q.before.tag = "Quit" => q.after = q.before
            /\ (q.reason.tag = "Quit" /\ q.before.tag # "Quit") => q.after = q.reason

\* A dispatch pass in which a Quit replaced the Tick being served and a later
\* request found the Quit recorded.
C8_Witness ==
    /\ \E i \in DOMAIN uc.requests :
          uc.requests[i].before = Tick /\ uc.requests[i].reason.tag = "Quit"
    /\ \E i \in DOMAIN uc.requests :
          uc.requests[i].before.tag = "Quit" /\ uc.requests[i].reason = Tick

\* C9: a dispatch pass that starts with a Quit recorded returns false, ends the
\* run loop and does nothing else: no frame, no vectoring, no device tick.
C9_QuitPassDoesNothing ==
    (last.op = "device_tick" /\ last.started.tag = "Quit")
    => (~last.ret /\ uc.log = <<>> /\ phase = "halted")

\* A pass has started with a Quit recorded.
C9_Witness ==
    last.op = "device_tick" /\ last.started.tag = "Quit"

\* C10: after a write of the SD command register the card's make_request is
\* called at most once, whatever the number of ticks, and the tick that called
\* it leaves co_en reading 0.
C10_CommandDispatchedOnce ==
    /\ uc.served <= 1
    /\ (last.op = "sic_tick"
        /\ \E port \in {"internal_sd", "external_sd"} : <<"make_request", port>> \in events(uc))
       => uc.sic.sd_control.co_en = 0

\* A full tick that follows the one which dispatched the command and does not
\* dispatch it again.
C10_Witness ==
    /\ last.op = "sic_tick"
    /\ uc.served = 1
    /\ uc.clk.ahbclk.sic
    /\ events(uc) = {<<"tick", "sic">>}

\* The pair the selection is required to return: the lowest-numbered priority
\* whose pending bitmap is not empty, and the lowest set bit of that bitmap.
LowestPending(a) ==
    LET p == SetMin({q \in 0..7 : a.status[q] # {}})
    IN  <<p, SetMin(a.status[p])>>

\* C11: in every state with a nonempty summary and something pending,
\* next_interrupt returns (p, n) with p the lowest-numbered priority whose
\* pending bitmap is nonzero and n the lowest set bit, over positions 0..31, of
\* that bitmap.
C11_NextIsLowestPending ==
    (uc.aic.status_map # {} /\ get_joint_status(uc.aic) # {}) =>
        next_interrupt(uc.aic) = LowestPending(uc.aic)

\* The table entry of source n: byte (n mod 4) of word (n div 4) of the
\* priority table, four sources to a word.
table_level(a, n) == a.levels[n \div 4][(n % 4) + 1]

\* Whether a trigger mode fires for the given levels: 0 low level, 1 high level,
\* 2 falling edge, 3 rising edge.
mode_fires(m, incoming, latched) ==
    CASE m = 0 -> ~incoming
      [] m = 1 -> incoming
      [] m = 2 -> latched /\ ~incoming
      [] m = 3 -> ~latched /\ incoming

\* C12: for an unmasked source, check_interrupt latches exactly when the
\* trigger mode of the source's table entry fires for the incoming and latched
\* levels; a latch sets the source's bit in the pending bitmap of the entry's
\* priority and that priority's summary bit, and a non-latch changes nothing.
C12_LatchFollowsTriggerMode ==
    [][(last'.op = "post_interrupt" /\ last'.intno \notin uc.aic.enabled) =>
          LET n == last'.intno
              level == table_level(uc.aic, n)
              fires == mode_fires(trigger_mode(level), last'.incoming, last'.latched)
              prio == priority_of(level)
          IN  /\ ~uc'.panicked
              /\ last'.ret = fires
              /\ uc'.aic.status = IF fires THEN [uc.aic.status EXCEPT ![prio] = @ \cup {n}]
                                  ELSE uc.aic.status
              /\ uc'.aic.status_map = IF fires THEN uc.aic.status_map \cup {prio}
                                      ELSE uc.aic.status_map]_vars

C14_ClearEnableBitNeverLatches ==
    [][(last'.op = "post_interrupt" /\ last'.intno \notin uc.aic.enabled) =>
          /\ ~last'.ret
          /\ uc'.aic.status = uc.aic.status]_vars

\* C15: the level check_interrupt uses for source n, and the level
\* set_joint_status uses for bit n, is the table entry of n (byte n mod 4 of
\* word n div 4), and neither lookup shifts a 32-bit word by 32 or more: a
\* posted source is looked up with a shift below 32 and latches into the class
\* of its table entry, and every bit written through the status register is
\* placed in the class of its table entry.
C15_LevelIsTableEntry ==
    /\ (last.op = "post_interrupt" /\ last.intno \notin uc.aic.enabled) =>
          /\ last.shift < 32
          /\ ~uc.panicked
          /\ last.ret => last.intno \in uc.aic.status[priority_of(table_level(uc.aic, last.intno))]
    /\ (last.op = "aic_write" /\ last.reg = "ISR") =>
          /\ ~uc.panicked
          /\ \A n \in last.value :
                /\ (n % 8) * 8 < 32
                /\ n \in uc.aic.status[priority_of(table_level(uc.aic, n))]

\* Every pending bit lies in the class of its source's table entry.
ConsistentWithTable(a) ==
    \A p \in 0..7 : \A i \in a.status[p] : priority_of(table_level(a, i)) = p

\* C16: in a state whose pending bits all lie in the class of their table entry,
\* set_joint_status(get_joint_status()) (a status-set or status-clear write of
\* 0) leaves the eight pending bitmaps and the summary as they were; and after
\* set_joint_status(s) (a status-register write of s) get_joint_status() is s,
\* every set bit lies in the class of its table entry and the summary holds
\* exactly the classes with a nonzero bitmap.
C16_JointStatusRoundTrip ==
    [][/\ (/\ last'.op = "aic_write"
           /\ last'.reg \in {"SSCR", "SCCR"}
           /\ last'.value = {}
           /\ ConsistentWithTable(uc.aic)) =>
             /\ ~uc'.panicked
             /\ uc'.aic.status = uc.aic.status
             /\ uc'.aic.status_map = uc.aic.status_map
       /\ (last'.op = "aic_write" /\ last'.reg = "ISR") =>
             /\ ~uc'.panicked
             /\ get_joint_status(uc'.aic) = last'.value
             /\ ConsistentWithTable(uc'.aic)
             /\ uc'.aic.status_map = {p \in 0..7 : uc'.aic.status[p] # {}}]_vars

\* C17: when an interrupt is pending and the controller's tick pops one,
\* pop_next_interrupt records as current_interrupt the pair next_interrupt
\* returns, that pair names a pending bit, exactly that bit is cleared, every
\* other pending bit and the mask are unchanged, and the in-service source
\* number read back from the status registers is that source.
C17_PopClearsExactlyTheSelectedBit ==
    [][(/\ last'.op = "aic_tick"
        /\ uc.aic.step
        /\ uc.aic.status_map # {}
        /\ get_joint_status(uc.aic) # {}) =>
          LET pn == next_interrupt(uc.aic)
          IN  /\ uc'.aic.current_interrupt = pn
              /\ pn[2] \in uc.aic.status[pn[1]]
              /\ uc'.aic.status = [uc.aic.status EXCEPT ![pn[1]] = @ \ {pn[2]}]
              /\ uc'.aic.enabled = uc.aic.enabled
              /\ aic_read(uc', <<"ISNR", 0>>).ret = pn[2]
              /\ aic_read(uc', <<"IPER", 0>>).ret = pn[2] * 4]_vars

\* The events of the running handler with the given first component.
events_of(u, kind) == {i \in DOMAIN u.log : u.log[i][1] = kind}

\* C18: a tick of the interrupt controller pops at most one interrupt and
\* vectors at most one exception; the exception it vectors is FIQ when the
\* priority of the interrupt put in service is 0 and IRQ for the priorities
\* 1..7, and the PC is then that exception's vector.
C18_FiqForPriorityZero ==
    last.op = "aic_tick" =>
        /\ Cardinality(events_of(uc, "pop")) <= 1
        /\ Cardinality(events_of(uc, "vector")) <= Cardinality(events_of(uc, "pop"))
        /\ \A i \in events_of(uc, "vector") :
              /\ uc.aic.current_interrupt[1] = 0 => uc.log[i][2] = "FIQ"
              /\ uc.aic.current_interrupt[1] \in 1..7 => uc.log[i][2] = "IRQ"
              /\ uc.cpu.pc = to_vector_address(uc.log[i][2])

\* A tick has put an interrupt of priority 0 in service and vectored.
C18_Witness ==
    /\ last.op = "aic_tick"
    /\ uc.aic.current_interrupt[1] = 0
    /\ events_of(uc, "vector") # {}
    /\ uc.cpu.pc = to_vector_address("FIQ")

\* C19: when exception vectoring fails while the controller's tick dispatches
\* an interrupt, the tick is a no-op for that interrupt: the pending bitmaps
\* after the tick are those before it, so the interrupt it selected is still
\* pending.
C19_FailedVectoringKeepsPending ==
    [][(/\ last'.op = "aic_tick"
        /\ last'.fail # "none"
        /\ uc.aic.step
        /\ uc.aic.status_map # {}
        /\ get_joint_status(uc.aic) # {}) =>
          /\ uc'.aic.status = uc.aic.status
          /\ next_interrupt(uc.aic)[2] \in get_joint_status(uc'.aic)]_vars

\* What delivery of each exception kind must produce: the target mode (the
\* value of status bits 0..4), whether the FIQ mask is forced, the offset added
\* to the resume PC for the link register, and the vector's offset from
\* 0xff000000.
RequiredDelivery ==
    [Reset |-> [mode |-> 19, fiq |-> TRUE, link |-> 0, vector |-> 0],
     UndefinedInstruction |-> [mode |-> 27, fiq |-> FALSE, link |-> 4, vector |-> 4],
     SupervisorCall |-> [mode |-> 19, fiq |-> FALSE, link |-> 0, vector |-> 8],
     PrefetchAbort |-> [mode |-> 23, fiq |-> FALSE, link |-> 4, vector |-> 12],
     DataAbort |-> [mode |-> 23, fiq |-> FALSE, link |-> 8, vector |-> 16],
     IRQ |-> [mode |-> 18, fiq |-> FALSE, link |-> 4, vector |-> 24],
     FIQ |-> [mode |-> 17, fiq |-> TRUE, link |-> 4, vector |-> 28]]

\* C20: after a successful call_exception_handler for kind k with resume PC p
\* and status register c: the saved status register is c; the mode bits are k's
\* target mode (svc 0x13 for reset and supervisor call, und 0x1b, abt 0x17 for
\* both aborts, irq 0x12, fiq 0x11); the IRQ mask is set; the FIQ mask is set
\* for reset and FIQ and as in c otherwise; the bits above bit 7 are those of c;
\* the link register is p, p + 4 or p + 8 by kind; the PC is the vector of k.
C20_ExceptionDelivery ==
    (last.op = "call_exception_handler" /\ last.ok) =>
        LET k == last.kind
            d == RequiredDelivery[k]
        IN  /\ uc.cpu.spsr = last.cpsr
            /\ ByteValue(uc.cpu.cpsr \cap (0..4)) = d.mode
            /\ 7 \in uc.cpu.cpsr
            /\ (6 \in uc.cpu.cpsr) <=> (d.fiq \/ 6 \in last.cpsr)
            /\ uc.cpu.cpsr \ (0..7) = last.cpsr \ (0..7)
            /\ uc.cpu.lr = [region |-> last.pc.region, off |-> last.pc.off + d.link]
            /\ uc.cpu.pc = [region |-> "vector", off |-> d.vector]

\* A data abort is delivered from user mode with FIQ unmasked and a flag above
\* bit 7 set.
C20_Witness ==
    /\ last.op = "call_exception_handler"
    /\ last.ok
    /\ last.kind = "DataAbort"
    /\ 6 \notin last.cpsr
    /\ last.cpsr \ (0..7) # {}
    /\ uc.cpu.lr.off = last.pc.off + 8

\* A freshly mounted card after the first n commands of bring-up.
BroughtUp(hc, n) == CardAfter(sd_mount(SD_default, hc).sd, SubSeq(BringUp, 1, n))

\* What bring-up requires after each of its first seven commands: the state of
\* the card and the kind of response.
BringUpRequired ==
    <<[state |-> "Idle", resp |-> "R1"], [state |-> "Idle", resp |-> "R1"],
      [state |-> "Idle", resp |-> "R3"], [state |-> "Idle", resp |-> "R1"],
      [state |-> "Ready", resp |-> "R3"], [state |-> "Identification", resp |-> "R2"],
      [state |-> "StandBy", resp |-> "R6"]>>

\* C21: on a freshly mounted card, each command of the sequence CMD0, CMD55,
\* command 41 with argument 0, CMD55, command 41 with argument 0x00ff8000, CMD2,
\* CMD3, sent after the ones before it, leaves the card in Idle, Idle, Idle (an
\* R3 query response, not powered up), Idle, Ready (an R3 response, powered
\* up), Identification (R2 with the CID) and StandBy (R6 reporting relative
\* address 1, which the card takes).
C21_BringUp ==
    [][\A hc \in BOOLEAN : \A i \in 1..7 :
          (/\ last'.op = "make_request"
           /\ <<last'.cmd, last'.arg>> = BringUp[i]
           /\ Card = BroughtUp(hc, i - 1)) =>
             /\ state_of(Card') = BringUpRequired[i].state
             /\ last'.resp.type = BringUpRequired[i].resp
             /\ (i = 3) => ~last'.resp.power_up
             /\ (i = 5) => last'.resp.power_up
             /\ (i = 6) => last'.resp.cid_csd = "CID_ESD"
             /\ (i = 7) => (last'.resp.rca = 1 /\ Card'.rca = 1)]_vars

\* Bring-up has run to its end: CMD3 was answered with R6 by a card that went
\* through the whole sequence.
C21_Witness ==
    /\ last.op = "make_request"
    /\ last.cmd = 3
    /\ last.resp.type = "R6"
    /\ \E hc \in BOOLEAN : Card = BroughtUp(hc, 7)
    /\ state_of(Card) = "StandBy"

\* C22: CMD7 on a mounted card with relative address A: addressed to A in
\* StandBy it moves the card to Transfer; addressed to another address in
\* Transfer or SendingData it moves the card to StandBy; addressed to A in
\* Transfer it is rejected (RNone, illegal-command bit set) and the card stays
\* in Transfer.
C22_SelectDeselect ==
    [][(/\ last'.op = "make_request"
        /\ last'.cmd = 7
        /\ ~last'.acmd
        /\ is_mounted(Card)) =>
          /\ (state_of(Card) = "StandBy" /\ last'.arg[1] = Card.rca) =>
                (state_of(Card') = "Transfer" /\ last'.resp.type = "R1")
          /\ (state_of(Card) \in {"Transfer", "SendingData"} /\ last'.arg[1] # Card.rca) =>
                (state_of(Card') = "StandBy" /\ last'.resp.type = "R1")
          /\ (state_of(Card) = "Transfer" /\ last'.arg[1] = Card.rca) =>
                /\ last'.resp = RNone
                /\ last'.illegal
                /\ BIT_ILLEGAL_COMMAND \in Card'.card_status
                /\ state_of(Card') = "Transfer"]_vars

\* A selected card was selected again and rejected the command.
C22_Witness ==
    /\ last.op = "make_request"
    /\ last.cmd = 7
    /\ last.illegal
    /\ last.arg[1] = Card.rca
    /\ Card.rca = 1
    /\ state_of(Card) = "Transfer"

\* C23: application command 41 on a mounted card is accepted only in Idle;
\* there an argument of zero answers R3 and leaves the card in Idle, and every
\* nonzero 32-bit argument, one whose low 24 bits are all zero included,
\* moves the card to Ready.
C23_Acmd41 ==
    [][(/\ last'.op = "make_request"
        /\ last'.cmd = 41
        /\ last'.acmd
        /\ is_mounted(Card)) =>
          /\ state_of(Card) # "Idle" => (last'.illegal /\ state_of(Card') = state_of(Card))
          /\ (state_of(Card) = "Idle" /\ last'.arg = ArgZero) =>
                (last'.resp.type = "R3" /\ state_of(Card') = "Idle")
          /\ (state_of(Card) = "Idle" /\ last'.arg # ArgZero) =>
                (last'.resp.type = "R3" /\ state_of(Card') = "Ready")]_vars

\* The sector number a staged index stands for.
SectorNumber(idx) == idx[1] * 65536 + idx[2]

C25_SetBlockLength ==
    [][/\ (/\ last'.op = "make_request"
           /\ last'.cmd = 16
           /\ ~last'.acmd
           /\ is_mounted(Card)
           /\ state_of(Card) = "Transfer") =>
             IF SectorNumber(last'.arg) \notin 1..512
             THEN /\ BIT_BLOCK_LEN_ERROR \in Card'.card_status
                  /\ Card'.io_size = Card.io_size
                  /\ state_of(Card') = "Transfer"
             ELSE /\ Card'.io_size = SectorNumber(last'.arg)
                  /\ BIT_BLOCK_LEN_ERROR \notin Card'.card_status
                  /\ state_of(Card') = "Transfer"
       /\ Card'.io_size <= 512]_vars

\* A length out of range was rejected after a length in range had been set.
C25_Witness ==
    /\ last.op = "make_request"
    /\ last.cmd = 16
    /\ SectorNumber(last.arg) > 512
    /\ BIT_BLOCK_LEN_ERROR \in Card.card_status
    /\ Card.io_size = 512
    /\ state_of(Card) = "Transfer"

\* The bits of the status word that clear when the status is read.
SelfClearingBits == (26..31) \cup {24} \cup (19..21) \cup (15..16) \cup {13, 5, 3}

\* C26: CardStatus::after_read returns the status as it was before the call;
\* afterwards every self-clearing bit (26-31, lock_unlock_failed, 19-21,
\* 15-16, erased_reset, app_command, ake_seq_error) is 0 and every other bit,
\* current_state and illegal_command included, is unchanged.
C26_AfterRead ==
    [][last'.op = "after_read" =>
          /\ last'.returned = Card.card_status
          /\ Card'.card_status \cap SelfClearingBits = {}
          /\ Card'.card_status \ SelfClearingBits = Card.card_status \ SelfClearingBits]_vars

\* The full status word was read: the value returned is the full word, and
\* what stays is every bit that does not clear, illegal_command and the state
\* field among them.
C26_Witness ==
    /\ last.op = "after_read"
    /\ last.returned = 0..31
    /\ Card.card_status = (0..31) \ SelfClearingBits
    /\ BIT_ILLEGAL_COMMAND \in Card.card_status
    /\ (9..12) \subseteq Card.card_status

\* The function requested for a group (0..5 for groups 1..6) by a function
\* switch argument, and the functions the card has in that group.
RequestedFunction(a, group) ==
    IF group < 4 THEN (a[2] \div (16 ^ group)) % 16 ELSE (a[1] \div (16 ^ (group - 4))) % 16
SupportedFunctions(group) == IF group = 0 THEN {0, 1} ELSE {0}

\* C27: when recv_data fulfils a staged function-status action with argument
\* a, the selected functions change only if bit 31 of a is set and, for each
\* of the six groups, the requested function is 0xF or one the card has in
\* that group; in both cases the card is then in Transfer with no staged
\* receive action.
C27_FunctionSwitchCommit ==
    [][(/\ last'.op = "recv_data"
        /\ Card.recv_action.tag = "FunctionStatus"
        /\ last'.len >= 64) =>
          LET a == Card.recv_action.arg
              commit == a[1] >= 32768
              legal == \A g \in 0..5 :
                          \/ RequestedFunction(a, g) = 15
                          \/ RequestedFunction(a, g) \in SupportedFunctions(g)
          IN  /\ Card'.selected_functions # Card.selected_functions => (commit /\ legal)
              /\ state_of(Card') = "Transfer"
              /\ Card'.recv_action = RecvNone]_vars

\* A function switch was committed: function 1 of group 1 is now selected.
C27_Witness ==
    /\ last.op = "recv_data"
    /\ last.data.kind = "function_status"
    /\ ~last.data.failed
    /\ Card.selected_functions = <<1, 0, 0, 0, 0, 0>>
    /\ state_of(Card) = "Transfer"
    /\ Card.recv_action = RecvNone

\* C28: a data-in phase serviced while the addressed card has no staged
\* receive action is not silently zero-filled: recv_data changes no card
\* state and leaves the buffer alone, and the controller does not write the
\* zero-filled buffer to guest memory and report a completed transfer
\* (block_xfer_done and crc_ok_dat set, DMA count and destination advanced).
C28_NoSilentZeroFill ==
    [][\A port \in {"internal_sd", "external_sd"} :
          (/\ last'.op = "sic_tick"
           /\ <<"recv_data", port>> \in events(uc')
           /\ <<"make_request", port>> \notin events(uc')
           /\ device[port].recv_action = RecvNone) =>
             /\ device' = device
             /\ ~(/\ uc'.written = [kind |-> "untouched"]
                  /\ uc'.sic.sd_irq.block_xfer_done = 1
                  /\ uc'.sic.sd_irq.crc_ok_dat = 1
                  /\ uc'.sic.dma_count > uc.sic.dma_count
                  /\ uc'.sic.dma_dest_addr > uc.sic.dma_dest_addr)]_vars

C30_UnmountLeavesFreshCard ==
    [][/\ last'.op = "unmount" =>
             /\ ~is_mounted(Card')
             /\ state_of(Card') = "Idle"
             /\ Card'.card_status = {}
             /\ Card'.rca = 0
             /\ Card'.send_action = "None"
             /\ Card'.recv_action = RecvNone
       /\ (last'.op = "mount" /\ last'.ok /\ last.op = "unmount") =>
             state_of(Card') = "Idle"]_vars

\* The card the controller's port selects, the answer it gives to the command
\* staged in the controller, and whether the tick that ends in the primed
\* state dispatched that command.
SelectedCard == port_card(uc.sic.sd_control.sdport)
StagedAnswer ==
    make_request(device[SelectedCard], uc.sic.sd_control.cmd_code, uc.sic.sd_arg).resp
TickDispatched ==
    /\ last'.op = "sic_tick"
    /\ SelectedCard # "none"
    /\ <<"make_request", SelectedCard>> \in events(uc')
TickPosted == <<"post_interrupt", "sic">> \in events(uc')

\* C31: when the card answers a serviced command with RNone, the controller
\* sets the command-timeout flag and does not set command-CRC-ok; if a data
\* phase was requested with the command it clears both data-enable bits, sets
\* the data-timeout flag and transfers no data in that tick; it posts the SIC
\* interrupt iff the command-timeout enable is set, or a data phase was
\* requested and the data-timeout enable is set.
C31_NoResponseTimesOut ==
    [][(TickDispatched /\ StagedAnswer = RNone) =>
          LET has_data == uc.sic.sd_control.di_en = 1 \/ uc.sic.sd_control.do_en = 1
          IN  /\ uc'.sic.sd_irq.timeout_cmd = 1
              /\ uc'.sic.sd_irq.crc_ok_cmd = uc.sic.sd_irq.crc_ok_cmd
              /\ has_data =>
                    /\ uc'.sic.sd_control.di_en = 0
                    /\ uc'.sic.sd_control.do_en = 0
                    /\ uc'.sic.sd_irq.timeout_dat = 1
                    /\ <<"recv_data", SelectedCard>> \notin events(uc')
                    /\ uc'.sic.dma_count = uc.sic.dma_count
                    /\ uc'.sic.dma_dest_addr = uc.sic.dma_dest_addr
                    /\ uc'.written = uc.written
              /\ TickPosted <=>
                    \/ uc.sic.sd_irq_enable.timeout_cmd = 1
                    \/ (has_data /\ uc.sic.sd_irq_enable.timeout_dat = 1)]_vars

\* A command with a data-in phase went unanswered while only the data-timeout
\* interrupt was enabled: both timeouts are flagged and the interrupt is
\* posted.
C31_Witness ==
    /\ last.op = "sic_tick"
    /\ <<"make_request", "internal_sd">> \in events(uc)
    /\ <<"post_interrupt", "sic">> \in events(uc)
    /\ uc.sic.sd_irq.timeout_cmd = 1
    /\ uc.sic.sd_irq.timeout_dat = 1
    /\ uc.sic.sd_irq.crc_ok_cmd = 0
    /\ uc.sic.sd_irq_enable.timeout_cmd = 0
    /\ uc.sic.sd_control.di_en = 0

\* The size of the data-in transfer the controller is set up for: the block
\* length times the block count, or the block length when the count is 0.
TransferSize ==
    IF uc.sic.sd_control.blkcnt = 0 THEN uc.sic.sd_io_size
    ELSE uc.sic.sd_io_size * uc.sic.sd_control.blkcnt

\* The tick that ends in the primed state ran a data-in phase on the selected
\* card, and its write to guest memory succeeded (failed).
TickReceived ==
    /\ last'.op = "sic_tick"
    /\ SelectedCard # "none"
    /\ <<"recv_data", SelectedCard>> \in events(uc')
    /\ ~uc'.panicked

\* C32: on a data-in phase whose guest-memory write succeeds, the DMA
\* destination address and the running byte count both advance by the block
\* length times the block count (the block length when the count is 0),
\* block-transfer-done and data-CRC-ok are set, the block count and the
\* data-in enable bit are 0 afterwards, and the SIC interrupt is posted iff
\* the block-transfer-done enable is set.
C32_DataInSuccess ==
    [][(TickReceived /\ ~last'.mem_fails) =>
          /\ uc'.sic.dma_dest_addr = uc.sic.dma_dest_addr + TransferSize
          /\ uc'.sic.dma_count = uc.sic.dma_count + TransferSize
          /\ uc'.sic.sd_irq.block_xfer_done = 1
          /\ uc'.sic.sd_irq.crc_ok_dat = 1
          /\ uc'.sic.sd_control.blkcnt = 0
          /\ uc'.sic.sd_control.di_en = 0
          /\ TickPosted <=> uc.sic.sd_irq_enable.block_xfer_done = 1]_vars

\* Two blocks of 512 bytes were transferred.
C32_Witness ==
    /\ last.op = "sic_tick"
    /\ ~last.mem_fails
    /\ <<"recv_data", "internal_sd">> \in events(uc)
    /\ uc.sic.sd_io_size = 512
    /\ uc.sic.dma_count = 1024
    /\ uc.sic.dma_dest_addr = 1024
    /\ uc.sic.sd_irq.block_xfer_done = 1
    /\ uc.sic.sd_control.blkcnt = 0

\* C33: if the guest-memory write of a data-in phase fails, the DMA
\* target-abort flag is set, block-transfer-done and data-CRC-ok are not set
\* by that tick, the DMA destination address and the running byte count are
\* unchanged, the SIC interrupt is posted iff the target-abort enable is set,
\* and the data-in enable bit is cleared.
C33_DataInWriteFails ==
    [][(TickReceived /\ last'.mem_fails) =>
          /\ uc'.sic.dma_irq_status.target_abort = 1
          /\ uc'.sic.sd_irq.block_xfer_done = uc.sic.sd_irq.block_xfer_done
          /\ uc'.sic.sd_irq.crc_ok_dat = 0
          /\ uc'.sic.dma_dest_addr = uc.sic.dma_dest_addr
          /\ uc'.sic.dma_count = uc.sic.dma_count
          /\ TickPosted <=> uc.sic.dma_irq_enable.target_abort = 1
          /\ uc'.sic.sd_control.di_en = 0]_vars

\* A write failed with the target-abort interrupt enabled.
C33_Witness ==
    /\ last.op = "sic_tick"
    /\ last.mem_fails
    /\ <<"recv_data", "internal_sd">> \in events(uc)
    /\ <<"post_interrupt", "sic">> \in events(uc)
    /\ uc.sic.dma_irq_status.target_abort = 1
    /\ uc.sic.sd_irq.block_xfer_done = 0
    /\ uc.sic.sd_control.di_en = 0

\* A reset bit of the controller is set.
ResetPending ==
    \/ uc.sic.dma_control.reset = 1
    \/ uc.sic.fmi_control.reset = 1
    \/ uc.sic.sd_control.swrst = 1

\* What a tick that only services resets leaves behind: every reset bit is
\* clear, and the command-enable and data-enable bits, the response registers
\* and FIFO, the DMA counters and the cards are as they were.
ResetsServicedOnly ==
    /\ uc'.sic.dma_control.reset = 0
    /\ uc'.sic.fmi_control.reset = 0
    /\ uc'.sic.sd_control.swrst = 0
    /\ uc'.sic.sd_control.co_en = uc.sic.sd_control.co_en
    /\ uc'.sic.sd_control.di_en = uc.sic.sd_control.di_en
    /\ uc'.sic.sd_control.do_en = uc.sic.sd_control.do_en
    /\ uc'.sic.sd_response = uc.sic.sd_response
    /\ uc'.sic.fifo = uc.sic.fifo
    /\ uc'.sic.dma_count = uc.sic.dma_count
    /\ uc'.served = uc.served
    /\ device' = device
    /\ events(uc') = {<<"tick", "sic">>}

\* C34: if any of the DMA reset, FMI reset or SD software reset bits is set
\* at the start of a tick of the controller, that tick clears every set reset
\* bit and dispatches no command and transfers no data: the command-enable
\* and data-enable bits, the response registers and the card are unchanged.
C34_ResetSuppressesTick ==
    [][(last'.op = "sic_tick" /\ ResetPending) => ResetsServicedOnly]_vars

\* C34, amended: the same for a tick that runs with the SIC clock enabled.
C34_ResetSuppressesClockedTick ==
    [][(last'.op = "sic_tick" /\ ResetPending /\ uc.clk.ahbclk.sic) =>
          ResetsServicedOnly]_vars

\* A software reset written together with a command and a data-in phase was
\* serviced: the reset bit is clear, the card is flagged available, and the
\* command and the data-in phase are still pending.
C34_Witness ==
    /\ last.op = "sic_tick"
    /\ uc.clk.ahbclk.sic
    /\ events(uc) = {<<"tick", "sic">>}
    /\ uc.sic.sd_control.swrst = 0
    /\ uc.sic.sd_irq.available = 1
    /\ uc.sic.sd_control.co_en = 1
    /\ uc.sic.sd_control.di_en = 1
    /\ uc.served = 0

\* C35: when frame presentation fails during a FrameStep dispatch pass, the
\* pass still returns true and leaves Quit(HLECallbackFailure) recorded as
\* the stop reason, so that the next dispatch pass ends the session.
C35_FailedPresentationEndsNextPass ==
    (last.op = "device_tick" /\ last.render_failed /\ ~uc.panicked) =>
        /\ last.ret
        /\ uc.stop_reason = Quit("HLECallbackFailure")
        /\ phase # "halted"

\* C36: the CPU core is never starved: in every run in which no Quit is
\* raised, whatever the clock dividers, every dispatch pass that returns true
\* is followed, eventually, by the execution of a guest instruction.
C36_GuestMakesProgress ==
    [](/\ last.op = "device_tick"
       /\ last.ret
       => <>(last.op = "exec" \/ uc.panicked \/ phase = "halted"))

\* A command written to SDCR waits to be dispatched: command-enable is set for
\* a mapped port, the SIC clock is on, and no reset or clock-delay bit is set.
CommandWaiting ==
    /\ uc.sic.sd_control.co_en = 1
    /\ SelectedCard # "none"
    /\ uc.clk.ahbclk.sic
    /\ ~ResetPending
    /\ uc.sic.sd_control.clk74_oe = 0
    /\ uc.sic.sd_control.clk8_oe = 0

\* C37: after the guest writes SDCR with the command-enable bit set for a
\* mapped port (SIC clock on, no reset or clock-delay bit pending), the
\* command is eventually dispatched to the card, even if no other device ever
\* requests a stop.
C37_CommandEventuallyDispatched ==
    [](CommandWaiting => <>(uc.served > 0 \/ uc.panicked \/ phase = "halted"))

\* The exception the controller's tick has delivered in the step, if any.
TickVectored(k) == last'.op = "aic_tick" /\ <<"vector", k>> \in events(uc')

\* C38: the interrupt controller's tick never delivers an IRQ while the CPU's
\* IRQ mask bit (CPSR bit 7) is set and never delivers a FIQ while the FIQ mask
\* bit (CPSR bit 6) is set, so a second interrupt is not vectored over the
\* banked link and saved-status registers of a handler entered with that mask.
C38_MaskedInterruptNotDelivered ==
    [][/\ TickVectored("IRQ") => 7 \notin uc.cpu.cpsr
       /\ TickVectored("FIQ") => 6 \notin uc.cpu.cpsr]_vars

\* The controller's tick has arbitrated (popped an interrupt) in the step.
TickPopped == last'.op = "aic_tick" /\ <<"pop", "aic">> \in events(uc')

\* C39: every exception the controller's tick delivers belongs to a source
\* whose pending bit was set immediately before the tick, and the delivery
\* clears that bit; the tick never arbitrates or vectors when no source is
\* pending.
C39_DeliveryHasPendingSource ==
    [][TickPopped =>
          LET pn == uc'.aic.current_interrupt
          IN  /\ pn[2] \in uc.aic.status[pn[1]]
              /\ pn[2] \notin uc'.aic.status[pn[1]]]_vars

\* C40: in every reachable state of a mounted card a staged receive action
\* exists only while the card is in SendingData: whenever current_state is not
\* SendingData (after CMD0, a CMD7 deselect, CMD12 or a completed status or
\* configuration read), recv_action is None.
C40_RecvActionOnlyWhileSending ==
    (is_mounted(Card) /\ state_of(Card) # "SendingData") => Card.recv_action = RecvNone

=========================================================================
